---- MODULE Spec2Model ----
(***************************************************************************)
(* A model of the stoic web-application template: the session store and    *)
(* the auth middleware (internal/platform/auth), the expired-session       *)
(* sweeper (main), and the template registry with its view-model           *)
(* validator (internal/platform/web).                                      *)
(*                                                                         *)
(* Spec      the auth flow: Login, Callback, Logout, requests through the  *)
(*           middleware chain, the sweeper and the clock.                  *)
(*                                                                         *)
(* SpecCmp   the field-tree comparison of the view-model validator on     *)
(*           its own: two trees grown field by field, then compared.       *)
(*                                                                         *)
(* SpecTpl   the template manager: startup (initTemplates), the            *)
(*           construction of a route handler, requests to it, and files    *)
(*           written and removed under the running application.            *)
(*                                                                         *)
(* The three specifications share the variables; each leaves the           *)
(* variables of the others at their initial values.                        *)
(*                                                                         *)
(* One HTTP request is one action: the whole middleware chain and the      *)
(* handler run against one reading of the clock.  The store executes the   *)
(* statements it is given; an error outcome is modelled wherever the code  *)
(* branches on it (provider calls, UpdateSessionToken, UpsertUser,         *)
(* CreateSession).                                                         *)
(***************************************************************************)
EXTENDS Integers, Sequences, FiniteSets, Bags, TLC

(***************************************************************************)
(* Bounds of the model.                                                    *)
(***************************************************************************)
MaxTime == 2        \* the clock runs 0..MaxTime
MaxSessions == 2    \* session ids handed out: 1..MaxSessions
MaxRefresh == 1     \* refreshes the provider grants one session

(***************************************************************************)
(* Program constants.  One tick of the clock stands for a day.             *)
(***************************************************************************)
SessionTTL == 1     \* time.Now().Add(24 * time.Hour)

Subs == {"alice", "bob"}            \* OIDC subjects the provider knows
NoCookie == -1                      \* r.Cookie returned http.ErrNoCookie
NoSession == [none |-> TRUE]        \* a nil *SessionData
OIDCLogoutURLs == {"", "https://idp/logout"}
AppURL == "https://app"
SecretKey == "k32"

VARIABLES
    now,            \* time.Now(), in ticks
    users,          \* table users: auth_sub -> row
    sessions,       \* table sessions: session_id -> row
    nextSid,        \* number of session ids GenerateState has produced
    oidcLogoutURL,  \* cfg.OIDCLogoutURL
    loggedOut,      \* history: session ids a Logout request has carried
    last,           \* history: the last request, its response and its trace
    templateField,  \* the field tree built from template syntax
    structField,    \* the field tree built from a sample data value
    compared,       \* history: what the last comparison of the two returned
    cfg,            \* *config.Config
    fsys,           \* the files under internal/app: path -> text
    tm,             \* the *TemplateManager
    handler,        \* the route handler construction returned
    pc,             \* where main is: "init", "routes", "serving", "panicked"
    render,         \* history: the last call into the template manager
    mu,             \* TemplateManager.mu: the goroutine holding the lock
    reqs,           \* the goroutines serving requests: where each one is
    advisoryLock,   \* Postgres advisory lock 1: the session holding it
    schemaVersion,  \* the migration version the database is at
    instances,      \* the application instances in Migrate: where each is
    ctxDone,        \* r.Context().Done() of the SSE request is closed
    sseHandler,     \* the SSE handler of one connection and its response
    producer,       \* the producer goroutine of that connection, its ticker
    tok,            \* history: the sessions handed to SetSession, the last read
    sweeper,        \* the goroutine sweeping expired sessions, its ticker
    val,            \* one call of the view-model validator: inputs and trees
    call,           \* one call of a function of the platform and its result
    shutdown        \* main from the moment it serves: signal, cancel, Shutdown

authVars == <<now, users, sessions, nextSid, oidcLogoutURL, loggedOut, last>>
cmpVars == <<templateField, structField, compared>>
tplVars == <<cfg, fsys, tm, handler, pc, render>>
concVars == <<mu, reqs>>
migVars == <<advisoryLock, schemaVersion, instances>>
sseVars == <<ctxDone, sseHandler, producer>>
svcVars == <<tok, sweeper>>
valVars == <<val>>
mainVars == <<call, shutdown>>
extVars == <<concVars, migVars, sseVars, svcVars, valVars, mainVars>>
concOthers == <<authVars, cmpVars, migVars, sseVars, svcVars, valVars,
    mainVars>>
migOthers == <<authVars, cmpVars, tplVars, concVars, sseVars, svcVars, valVars,
    mainVars>>
sseOthers == <<authVars, cmpVars, tplVars, concVars, migVars, svcVars, valVars,
    mainVars>>
svcOthers == <<cmpVars, tplVars, concVars, migVars, sseVars, valVars,
    mainVars>>
valOthers ==
    <<authVars, cmpVars, tplVars, concVars, migVars, sseVars, svcVars, mainVars>>
mainOthers == <<cmpVars, tplVars, concVars, migVars, sseVars, valVars>>
webVars == <<cmpVars, tplVars, extVars>>
vars == <<authVars, webVars>>


(***************************************************************************)
(* Values.                                                                 *)
(***************************************************************************)
IssuedIds == 1..nextSid
\* what a client can present: no cookie, or an id it was once given (an id
\* whose session is gone since stands for every id the store does not know)
Cookies == {NoCookie} \cup IssuedIds
OAuthStates == {"s1", "s2"}
TokenLives == {1}                   \* ticks a token lives after its issue

\* the claims the provider signs for a subject
ClaimsName(sub) == IF sub = "alice" THEN "Al" ELSE ""
ClaimsRoles(sub) == IF sub = "alice" THEN <<"admin">> ELSE <<>>
CallbackFailures == {"none", "exchange", "no_id_token", "verify", "claims",
                     "upsert", "session"}

Email(sub) == sub \o "@example.org"
RawIDToken(sub) == "idt." \o sub

\* the n-th token the provider issues for a session, valid until time e
ProviderToken(n, e) ==
    [AccessToken |-> n, TokenType |-> "Bearer", RefreshToken |-> n, Expiry |-> e]

\* what a refresh can meet: the provider answers with an error (prov is
\* ProviderFails) or with a token that lives prov ticks, and the store then
\* takes the update or fails it
ProviderFails == -1
RefreshOutcomes ==
    {[prov |-> ProviderFails, dbOk |-> TRUE]}
        \cup [prov : TokenLives, dbOk : BOOLEAN]

(***************************************************************************)
(* Token serialisation and encryption.                                     *)
(***************************************************************************)
tokenToJSON(token, roles) ==
    [access_token |-> token.AccessToken, token_type |-> token.TokenType,
     refresh_token |-> token.RefreshToken, expiry |-> token.Expiry,
     roles |-> roles]

\* bytes that are not a JSON document
NotJSON == [syntax |-> "invalid"]

\* mutant: the roles are not read back
tokenFromJSON_NoRoles(data) ==
    IF "syntax" \in DOMAIN data THEN [err |-> TRUE, token |-> <<>>, roles |-> <<>>]
    ELSE [err |-> FALSE,
          token |-> [AccessToken |-> data.access_token,
                     TokenType |-> data.token_type,
                     RefreshToken |-> data.refresh_token, Expiry |-> data.expiry],
          roles |-> <<>>]

\* json.Unmarshal fails on bytes that do not parse
tokenFromJSON(data) ==
    IF "syntax" \in DOMAIN data THEN [err |-> TRUE, token |-> <<>>, roles |-> <<>>]
    ELSE [err |-> FALSE,
          token |-> [AccessToken |-> data.access_token,
                     TokenType |-> data.token_type,
                     RefreshToken |-> data.refresh_token, Expiry |-> data.expiry],
          roles |-> data.roles]

\* an authenticated cipher: the plaintext comes back only under the same key
encrypt(plaintext, key) == [sealedWith |-> key, box |-> plaintext]

decrypt(data, key) ==
    IF data.sealedWith = key THEN [err |-> FALSE, plaintext |-> data.box]
    ELSE [err |-> TRUE, plaintext |-> <<>>]

encryptToken(token, roles) == encrypt(tokenToJSON(token, roles), SecretKey)

decryptToken(data) ==
    LET d == decrypt(data, SecretKey)
    IN  IF d.err THEN [err |-> TRUE, token |-> <<>>, roles |-> <<>>]
        ELSE tokenFromJSON(d.plaintext)

(***************************************************************************)
(* The queries of sessions.sql, on the tables as functions.                *)
(***************************************************************************)
\* INSERT INTO sessions ...; session_id is the primary key
CreateSession(store, sid, row) ==
    [s \in DOMAIN store \cup {sid} |-> IF s = sid THEN row ELSE store[s]]

\* UPDATE sessions SET token_data = $2 WHERE session_id = $1
UpdateSessionToken(store, sid, tokenData) ==
    [s \in DOMAIN store |->
        IF s = sid THEN [store[s] EXCEPT !.token_data = tokenData] ELSE store[s]]

\* mutant: WHERE user_id = $1
DeleteSession_WrongKey(store, sid) ==
    [s \in {x \in DOMAIN store : store[x].user_id # sid} |-> store[s]]

\* DELETE FROM sessions WHERE session_id = $1
DeleteSession(store, sid) ==
    [s \in DOMAIN store \ {sid} |-> store[s]]

\* mutant: expires_at <= NOW()
DeleteExpiredSessions_Inclusive(store, t) ==
    [s \in {x \in DOMAIN store : ~(store[x].expires_at <= t)} |-> store[s]]

\* DELETE FROM sessions WHERE expires_at < NOW()
DeleteExpiredSessions(store, t) ==
    [s \in {x \in DOMAIN store : ~(store[x].expires_at < t)} |-> store[s]]

\* INSERT INTO users ... ON CONFLICT (auth_sub) DO UPDATE ... RETURNING id
UpsertUser(table, sub, email, displayName) ==
    IF sub \in DOMAIN table
    THEN [table EXCEPT ![sub] = [@ EXCEPT !.email = email,
                                          !.display_name = displayName]]
    ELSE [u \in DOMAIN table \cup {sub} |->
            IF u = sub
            THEN [id |-> Cardinality(DOMAIN table) + 1, auth_sub |-> sub,
                  email |-> email, display_name |-> displayName]
            ELSE table[u]]

\* SELECT ... FROM users WHERE id = $1
GetUserByID(table, id) ==
    {table[u] : u \in {x \in DOMAIN table : table[x].id = id}}

(***************************************************************************)
(* AuthService: GetSession, SetSession, RefreshToken.                      *)
(***************************************************************************)
GetSession(store, table, sid) ==
    IF sid \notin DOMAIN store THEN NoSession
    ELSE LET dbSession == store[sid]
             dec == decryptToken(dbSession.token_data)
             found == GetUserByID(table, dbSession.user_id)
         IN  IF dec.err \/ found = {} THEN NoSession
             ELSE LET user == CHOOSE u \in found : TRUE
                  IN  [Token |-> dec.token, IDToken |-> dbSession.id_token,
                       UserID |-> user.auth_sub, UserDBID |-> user.id,
                       Email |-> user.email, DisplayName |-> user.display_name,
                       Roles |-> dec.roles, Expires |-> dbSession.expires_at]

SetSession(store, sid, session) ==
    CreateSession(store, sid,
        [user_id |-> session.UserDBID,
         token_data |-> encryptToken(session.Token, session.Roles),
         id_token |-> session.IDToken,
         expires_at |-> session.Expires])

\* mutant: !Expiry.Before(now), which takes a token expiring now as valid
TokenStillValid_Inclusive(token, t) == token.Expiry >= t

\* the token is refreshed when its expiry is not after the clock
TokenStillValid(token, t) == token.Expiry > t

\* prov: the provider's answer were it asked (an error or the new token's life);
\* dbOk: whether UpdateSessionToken would succeed.
\* The session is a pointer: the caller sees the token assigned at line 234
\* also when the update that follows fails.
RefreshToken(store, t, sid, session, prov, dbOk) ==
    IF TokenStillValid(session.Token, t)
    THEN [err |-> FALSE, session |-> session, store |-> store,
          calls |-> 0, wrote |-> FALSE, issued |-> 0]
    ELSE IF prov = ProviderFails \/ session.Token.AccessToken > MaxRefresh
    THEN [err |-> TRUE, session |-> session, store |-> store,
          calls |-> 1, wrote |-> FALSE, issued |-> 0]
    ELSE LET newToken == ProviderToken(session.Token.AccessToken + 1, t + prov)
             refreshed == [session EXCEPT !.Token = newToken]
         IN  IF ~dbOk
             THEN [err |-> TRUE, session |-> refreshed, store |-> store,
                   calls |-> 1, wrote |-> FALSE, issued |-> 1]
             ELSE [err |-> FALSE, session |-> refreshed,
                   store |-> UpdateSessionToken(store, sid,
                                encryptToken(newToken, refreshed.Roles)),
                   calls |-> 1, wrote |-> TRUE, issued |-> 1]


(***************************************************************************)
(* The middleware.  Each returns what it did: whether the next handler     *)
(* ran (a 307 to /login if not), the session the next handler finds in the *)
(* request context, the store afterwards, the number of GetSession calls   *)
(* and the trace of its RefreshToken call.                                 *)
(***************************************************************************)
\* a Location header: the URL and the query parameters Logout adds
Location(url, hint, back) ==
    [url |-> url, id_token_hint |-> hint, post_logout_redirect_uri |-> back]
Redirect(url) == [status |-> 307, location |-> Location(url, "", "")]
NoResponse == [status |-> 0, location |-> Location("", "", "")]  \* left to the next handler
NoToken == [none |-> TRUE]

NoRefresh ==
    [called |-> FALSE, tokenIn |-> NoToken, err |-> FALSE, calls |-> 0,
     wrote |-> FALSE, issued |-> 0]

RefreshTrace(session, r) ==
    [called |-> TRUE, tokenIn |-> session.Token, err |-> r.err,
     calls |-> r.calls, wrote |-> r.wrote, issued |-> r.issued]

Outcome(next, ctx, store, lookups, refresh) ==
    [next |-> next, resp |-> IF next THEN NoResponse ELSE Redirect("/login"),
     ctx |-> ctx, store |-> store, lookups |-> lookups, refresh |-> refresh]

\* mutant: a day of grace after the expiry
SessionExpired_Lenient(session, t) == t > session.Expires + 1

\* time.Now().After(session.Expires)
SessionExpired(session, t) == t > session.Expires

\* mutant: a failed refresh takes the session out of the context
OptionalAuth_DropsOnError(store, table, t, cookie, prov, dbOk) ==
    IF cookie = NoCookie
    THEN Outcome(TRUE, NoSession, store, 0, NoRefresh)
    ELSE LET session == GetSession(store, table, cookie)
         IN  IF session = NoSession \/ SessionExpired(session, t)
             THEN Outcome(TRUE, NoSession, store, 1, NoRefresh)
             ELSE LET r == RefreshToken(store, t, cookie, session, prov, dbOk)
                  IN  Outcome(TRUE, IF r.err THEN NoSession ELSE r.session,
                              r.store, 1, RefreshTrace(session, r))

OptionalAuth(store, table, t, cookie, prov, dbOk) ==
    IF cookie = NoCookie
    THEN Outcome(TRUE, NoSession, store, 0, NoRefresh)
    ELSE LET session == GetSession(store, table, cookie)
         IN  IF session = NoSession \/ SessionExpired(session, t)
             THEN Outcome(TRUE, NoSession, store, 1, NoRefresh)
             ELSE LET r == RefreshToken(store, t, cookie, session, prov, dbOk)
                  IN  Outcome(TRUE, r.session, r.store, 1,
                              RefreshTrace(session, r))

\* mutant: with a session already in the context the result of RefreshToken
\* is dropped, as OptionalAuth drops it
RequireAuth_ForgivesRefresh(store, table, t, cookie, ctx, prov, dbOk) ==
    IF ctx # NoSession
    THEN IF cookie # NoCookie
         THEN LET r == RefreshToken(store, t, cookie, ctx, prov, dbOk)
              IN  Outcome(TRUE, r.session, r.store, 0, RefreshTrace(ctx, r))
         ELSE Outcome(TRUE, ctx, store, 0, NoRefresh)
    ELSE IF cookie = NoCookie
    THEN Outcome(FALSE, NoSession, store, 0, NoRefresh)
    ELSE LET session == GetSession(store, table, cookie)
         IN  IF session = NoSession \/ SessionExpired(session, t)
             THEN Outcome(FALSE, NoSession, store, 1, NoRefresh)
             ELSE LET r == RefreshToken(store, t, cookie, session, prov, dbOk)
                  IN  Outcome(~r.err, r.session, r.store, 1,
                              RefreshTrace(session, r))

\* ctx: the session OptionalAuth left in the request context (or NoSession)
RequireAuth(store, table, t, cookie, ctx, prov, dbOk) ==
    IF ctx # NoSession
    THEN IF cookie # NoCookie
         THEN LET r == RefreshToken(store, t, cookie, ctx, prov, dbOk)
              IN  Outcome(~r.err, r.session, r.store, 0, RefreshTrace(ctx, r))
         ELSE Outcome(TRUE, ctx, store, 0, NoRefresh)
    ELSE IF cookie = NoCookie
    THEN Outcome(FALSE, NoSession, store, 0, NoRefresh)
    ELSE LET session == GetSession(store, table, cookie)
         IN  IF session = NoSession \/ SessionExpired(session, t)
             THEN Outcome(FALSE, NoSession, store, 1, NoRefresh)
             ELSE LET r == RefreshToken(store, t, cookie, session, prov, dbOk)
                  IN  Outcome(~r.err, r.session, r.store, 1,
                              RefreshTrace(session, r))

(***************************************************************************)
(* The record of the last step.                                            *)
(***************************************************************************)
\* a Set-Cookie header; state: the value of oauth_state, sid: of session_id
\* (NoCookie: the empty value)
SetCookie(name, state, sid, maxAge) ==
    [name |-> name, state |-> state, sid |-> sid, maxAge |-> maxAge]
NotRun == [ran |-> FALSE, next |-> FALSE, ctx |-> NoSession, lookups |-> 0,
           refresh |-> NoRefresh]

\* what a middleware did, without the store
Did(r) == [ran |-> TRUE, next |-> r.next, ctx |-> r.ctx, lookups |-> r.lookups,
           refresh |-> r.refresh]

\* opt, req: what OptionalAuth and RequireAuth did; invoked: the route's
\* handler ran; ctx: the session in the context it was given.  Every step
\* writes the record, so while it shows a request the clock still reads the
\* time of that request.
Trace(op, cookie, resp, setCookies, invoked, ctx, opt, req) ==
    [op |-> op, cookie |-> cookie, status |-> resp.status,
     location |-> resp.location, setCookies |-> setCookies, invoked |-> invoked,
     ctx |-> ctx, opt |-> opt, req |-> req]

Quiet(op) ==
    Trace(op, NoCookie, NoResponse, {}, FALSE, NoSession, NotRun, NotRun)


(***************************************************************************)
(* Handlers of the routes.                                                 *)
(***************************************************************************)
Status(code) == [status |-> code, location |-> Location("", "", "")]

\* what r.Context().Value(sessionContextKey) can hold besides nil and a
\* *SessionData: a value of some other type
OtherValue == [other |-> TRUE]

\* the type switch: case *SessionData
IsSessionData(v) == "Token" \in DOMAIN v

\* mutant: whatever is under the key is taken for the session
GetSessionFromContext_AnyValue(ctx) ==
    IF ctx = NoSession THEN [err |-> TRUE, session |-> NoSession]
    ELSE [err |-> FALSE, session |-> ctx]

\* GetSessionFromContext: the session, or an error when the context holds
\* nothing or a value of another type under the key
GetSessionFromContext(ctx) ==
    IF ctx = NoSession THEN [err |-> TRUE, session |-> NoSession]
    ELSE IF IsSessionData(ctx) THEN [err |-> FALSE, session |-> ctx]
    ELSE [err |-> TRUE, session |-> NoSession]

\* GetOptionalSession: the session, or nil
GetOptionalSession(ctx) ==
    IF ctx = NoSession THEN NoSession
    ELSE IF IsSessionData(ctx) THEN ctx
    ELSE NoSession

\* views.Dashboard: 500 when the context holds no session
Dashboard(ctx) ==
    IF GetSessionFromContext(ctx).err THEN Status(500) ELSE Status(200)

\* the chain of GET /: r.Use(OptionalAuth), then views.Home
PublicChain(store, table, t, cookie, r1) ==
    LET o == OptionalAuth(store, table, t, cookie, r1.prov, r1.dbOk)
    IN  [store |-> o.store, resp |-> Status(200), invoked |-> o.next,
         ctx |-> o.ctx, opt |-> Did(o), req |-> NotRun]

\* the chain of GET /u/dashboard: r.Use(OptionalAuth), u.Use(RequireAuth),
\* then views.Dashboard
ProtectedChain(store, table, t, cookie, r1, r2) ==
    LET o == OptionalAuth(store, table, t, cookie, r1.prov, r1.dbOk)
        q == RequireAuth(o.store, table, t, cookie, o.ctx, r2.prov, r2.dbOk)
    IN  [store |-> q.store,
         resp |-> IF q.next THEN Dashboard(q.ctx) ELSE q.resp,
         invoked |-> q.next, ctx |-> q.ctx, opt |-> Did(o), req |-> Did(q)]

RequestPublic ==
    \E cookie \in Cookies :
        \E c \in {PublicChain(sessions, users, now, cookie, r1) :
                    r1 \in RefreshOutcomes} :
            /\ sessions' = c.store
            /\ last' = Trace("Public", cookie, c.resp, {}, c.invoked, c.ctx,
                             c.opt, c.req)
            /\ UNCHANGED <<now, users, nextSid, oidcLogoutURL, loggedOut, webVars>>

RequestProtected ==
    \E cookie \in Cookies :
        \E c \in {ProtectedChain(sessions, users, now, cookie, r1, r2) :
                    r1 \in RefreshOutcomes, r2 \in RefreshOutcomes} :
            /\ sessions' = c.store
            /\ last' = Trace("Protected", cookie, c.resp, {}, c.invoked, c.ctx,
                             c.opt, c.req)
            /\ UNCHANGED <<now, users, nextSid, oidcLogoutURL, loggedOut, webVars>>

\* GET /login
Login ==
    \E state \in OAuthStates :
        /\ last' = Trace("Login", NoCookie, Redirect("idp/auth"),
                         {SetCookie("oauth_state", state, NoCookie, 300)},
                         FALSE, NoSession, NotRun, NotRun)
        /\ UNCHANGED <<now, users, sessions, nextSid, oidcLogoutURL, loggedOut, webVars>>

\* the oauth_state cookie of a request: none, or one with a value
NoStateCookie == [none |-> TRUE]
StateCookie(v) == [Value |-> v]
StateCookies ==
    {NoStateCookie} \cup {StateCookie(v) : v \in {""} \cup OAuthStates}

\* r.URL.Query().Get("state"): "" when the URL carries no state parameter
QueryStates == {"", "s1"}

\* mutant: any oauth_state cookie passes
StateMatches_AnyCookie(stateCookie, state) ==
    stateCookie # NoStateCookie

\* err == nil && stateCookie.Value == r.URL.Query().Get("state")
StateMatches(stateCookie, state) ==
    /\ stateCookie # NoStateCookie
    /\ stateCookie.Value = state

\* the steps of Callback that can fail, in the order of its statements
CallbackSteps ==
    <<"exchange", "no_id_token", "verify", "claims", "upsert", "session">>

\* the place of a step among them
StepAt ==
    [step \in {CallbackSteps[i] : i \in DOMAIN CallbackSteps} |->
        CHOOSE i \in DOMAIN CallbackSteps : CallbackSteps[i] = step]

\* mutant: the session row is inserted before the user row is upserted
StepDone_SessionFirst(step, fail) ==
    LET swap(x) == IF x = "upsert" THEN "session"
                   ELSE IF x = "session" THEN "upsert" ELSE x
    IN  fail = "none" \/ StepAt[swap(step)] < StepAt[swap(fail)]

\* the step has completed when `fail` is the first step that fails
\* ("none": no step does): every failing step returns
StepDone(step, fail) ==
    fail = "none" \/ StepAt[step] < StepAt[fail]

\* GET /callback with the oauth_state cookie, the state parameter, the
\* first step that fails, the subject and the token life the provider gives
CallbackOn(stateCookie, state, fail, sub, life) ==
    LET cleared == {SetCookie("oauth_state", "", NoCookie, -1)}
        answer(resp, cookies) ==
            last' = Trace("Callback", NoCookie, resp, cookies, FALSE,
                          NoSession, NotRun, NotRun)
        displayName == IF ClaimsName(sub) = "" THEN Email(sub)
                       ELSE ClaimsName(sub)
        upserted == UpsertUser(users, sub, Email(sub), displayName)
        sessionID == nextSid + 1
        session ==
            [Token |-> ProviderToken(1, now + life),
             IDToken |-> RawIDToken(sub), UserID |-> sub,
             UserDBID |-> upserted[sub].id, Email |-> Email(sub),
             DisplayName |-> displayName,
             Roles |-> ClaimsRoles(sub),
             Expires |-> now + SessionTTL]
    IN  /\ UNCHANGED <<now, oidcLogoutURL, loggedOut>>
        /\ IF ~StateMatches(stateCookie, state)
           THEN /\ answer(Status(400), {})
                /\ UNCHANGED <<users, sessions, nextSid>>
           ELSE /\ fail = "none" => nextSid < MaxSessions
                /\ users' = IF StepDone("upsert", fail) THEN upserted
                            ELSE users
                /\ sessions' = IF StepDone("session", fail)
                               THEN SetSession(sessions, sessionID, session)
                               ELSE sessions
                /\ nextSid' = IF StepDone("session", fail) THEN sessionID
                              ELSE nextSid
                /\ IF fail = "none"
                   THEN answer(Redirect("/u/dashboard"),
                               cleared \cup {SetCookie("session_id", "",
                                                       sessionID, 86400)})
                   ELSE answer(Status(IF fail = "verify" THEN 401 ELSE 500),
                               cleared)

\* an input matters only to a request that reaches the statement reading
\* it: for the others one value stands for all
Reached(reached, values) ==
    IF reached THEN values ELSE {CHOOSE v \in values : TRUE}

\* beside the other requests the callback URL carries the state of the login
LoginStates == {"s1"}

Callback ==
    \E stateCookie \in StateCookies, state \in LoginStates :
        \E fail \in Reached(StateMatches(stateCookie, state),
                             CallbackFailures) :
        \E sub \in Reached(StateMatches(stateCookie, state)
                                /\ StepDone("claims", fail), Subs),
           life \in Reached(StateMatches(stateCookie, state)
                                /\ StepDone("exchange", fail), TokenLives) :
            /\ CallbackOn(stateCookie, state, fail, sub, life)
            /\ UNCHANGED webVars

\* mutant: the redirect carries no id_token_hint
LogoutURL_NoHint(base, idToken) ==
    [status |-> 307, location |-> Location(base, "", AppURL)]

\* the provider's logout URL; url.QueryEscape as the value it carries
LogoutURL(base, idToken) ==
    [status |-> 307, location |-> Location(base, idToken, AppURL)]

\* POST /logout
Logout ==
    \E cookie \in Cookies :
        LET session == IF cookie = NoCookie THEN NoSession
                       ELSE GetSession(sessions, users, cookie)
            idToken == IF session = NoSession THEN "" ELSE session.IDToken
        IN  /\ sessions' = IF cookie = NoCookie THEN sessions
                           ELSE DeleteSession(sessions, cookie)
            /\ loggedOut' = IF cookie = NoCookie THEN loggedOut
                            ELSE loggedOut \cup {cookie}
            /\ last' = Trace("Logout", cookie,
                             IF oidcLogoutURL # ""
                             THEN LogoutURL(oidcLogoutURL, idToken)
                             ELSE Redirect("/"),
                             {SetCookie("session_id", "", NoCookie, -1)},
                             FALSE, NoSession, NotRun, NotRun)
            /\ UNCHANGED <<now, users, nextSid, oidcLogoutURL, webVars>>

\* the sweeper goroutine's tick: DeleteExpiredSessions, its error logged
Sweep ==
    \E dbOk \in BOOLEAN :
        /\ sessions' = IF dbOk THEN DeleteExpiredSessions(sessions, now)
                       ELSE sessions
        /\ last' = Quiet(IF dbOk THEN "Sweep" ELSE "SweepFailed")
        /\ UNCHANGED <<now, users, nextSid, oidcLogoutURL, loggedOut, webVars>>

\* time passes
Tick ==
    /\ now < MaxTime
    /\ now' = now + 1
    /\ last' = Quiet("Tick")
    /\ UNCHANGED <<users, sessions, nextSid, oidcLogoutURL, loggedOut, webVars>>

(***************************************************************************)
(* Field trees (package web): a name and a map from child names to child   *)
(* trees.                                                                  *)
(***************************************************************************)
MaxFields == 3      \* fields one tree is grown to, the root not counted

FieldNames == {"Email", "User"}

\* make(map[string]*templateField)
NoChildren == [n \in {} |-> n]

newTemplateField(name) == [Name |-> name, Children |-> NoChildren]

\* the node a chain of addChild calls reaches from tf along ident, created
\* where it was missing: the tree with that chain added
RECURSIVE addChild(_, _)
addChild(tf, ident) ==
    IF ident = <<>> THEN tf
    ELSE LET name == Head(ident)
             exists == name \in DOMAIN tf.Children
             child == IF exists THEN tf.Children[name]
                      ELSE newTemplateField(name)
         IN  [tf EXCEPT !.Children =
                [n \in DOMAIN tf.Children \cup {name} |->
                    IF n = name THEN addChild(child, Tail(ident))
                    ELSE tf.Children[n]]]

\* the paths of the nodes of a tree, the root's being <<>>
RECURSIVE NodePaths(_)
NodePaths(tf) ==
    {<<>>} \cup UNION {{<<n>> \o p : p \in NodePaths(tf.Children[n])} :
                         n \in DOMAIN tf.Children}

\* the lists compareTemplateFields returns: Go ranges over maps in no fixed
\* order, so a list is known up to the order of its entries
NoEntries == EmptyBag
Entry(parent, name) == SetToBag({parent \o "->" \o name})
Lists(missing, extra) == [missing |-> missing, extra |-> extra]

RECURSIVE SumLists(_, _)
SumLists(f, names) ==
    IF names = {} THEN Lists(NoEntries, NoEntries)
    ELSE LET n == CHOOSE x \in names : TRUE
             rest == SumLists(f, names \ {n})
         IN  Lists(f[n].missing (+) rest.missing, f[n].extra (+) rest.extra)

\* mutant: same-named children are taken to agree
compareTemplateFields_Shallow(tField, sField) ==
    LET perName == [name \in DOMAIN tField.Children |->
                      IF name \notin DOMAIN sField.Children
                      THEN Lists(Entry(sField.Name, name), NoEntries)
                      ELSE Lists(NoEntries, NoEntries)]
        added == [name \in DOMAIN sField.Children |->
                      IF name \notin DOMAIN tField.Children
                      THEN Lists(NoEntries, Entry(tField.Name, name))
                      ELSE Lists(NoEntries, NoEntries)]
        m == SumLists(perName, DOMAIN perName)
        e == SumLists(added, DOMAIN added)
    IN  Lists(m.missing, e.extra)

RECURSIVE compareTemplateFields(_, _)
compareTemplateFields(tField, sField) ==
    LET perName == [name \in DOMAIN tField.Children |->
                      IF name \notin DOMAIN sField.Children
                      THEN Lists(Entry(sField.Name, name), NoEntries)
                      ELSE compareTemplateFields(tField.Children[name],
                                                 sField.Children[name])]
        added == [name \in DOMAIN sField.Children |->
                      IF name \notin DOMAIN tField.Children
                      THEN Lists(NoEntries, Entry(tField.Name, name))
                      ELSE Lists(NoEntries, NoEntries)]
        first == SumLists(perName, DOMAIN perName)
        second == SumLists(added, DOMAIN added)
    IN  Lists(first.missing (+) second.missing, first.extra (+) second.extra)

\* the end of validateViewModelAllBlocks: nil when both lists are empty, else
\* an error that carries them
NoError == [failed |-> FALSE, extra |-> NoEntries, missing |-> NoEntries]
verdict(r) ==
    IF BagCardinality(r.extra) = 0 /\ BagCardinality(r.missing) = 0
    THEN NoError
    ELSE [failed |-> TRUE, extra |-> r.extra, missing |-> r.missing]
validateFields(tField, sField) ==
    verdict(compareTemplateFields(tField, sField))

NotCompared == [done |-> FALSE, missing |-> NoEntries, extra |-> NoEntries,
                err |-> NoError]

\* one more field reference read from the template syntax
AddTemplateField ==
    \E p \in NodePaths(templateField), n \in FieldNames :
        /\ Cardinality(NodePaths(templateField)) <= MaxFields
        /\ Append(p, n) \notin NodePaths(templateField)
        /\ templateField' = addChild(templateField, Append(p, n))
        /\ compared' = NotCompared
        /\ UNCHANGED <<structField, authVars, tplVars, extVars>>

\* one more field found in the sample data value
AddStructField ==
    \E p \in NodePaths(structField), n \in FieldNames :
        /\ Cardinality(NodePaths(structField)) <= MaxFields
        /\ Append(p, n) \notin NodePaths(structField)
        /\ structField' = addChild(structField, Append(p, n))
        /\ compared' = NotCompared
        /\ UNCHANGED <<templateField, authVars, tplVars, extVars>>

\* the two trees are compared and the result judged
Compare ==
    \E r \in {compareTemplateFields(templateField, structField)} :
        /\ ~compared.done
        /\ compared' = [done |-> TRUE, missing |-> r.missing, extra |-> r.extra,
                        err |-> verdict(r)]
        /\ UNCHANGED <<templateField, structField, authVars, tplVars, extVars>>


(***************************************************************************)
(* Template syntax: the nodes of text/template/parse that the extractor    *)
(* looks at, and the parse of the texts the files of the model hold.       *)
(***************************************************************************)
NilNode == [kind |-> "nil"]
Field(ident) == [kind |-> "Field", Ident |-> ident]
Dot == [kind |-> "Dot"]
Cmd(args) == [Args |-> args]
Pipe(cmds) == [kind |-> "Pipe", Cmds |-> cmds]
Action(pipe) == [kind |-> "Action", Pipe |-> pipe]
Text(text) == [kind |-> "Text", Text |-> text]
List(nodes) == [kind |-> "List", Nodes |-> nodes]
Range(pipe, list, elseList) ==
    [kind |-> "Range", Pipe |-> pipe, List |-> list, ElseList |-> elseList]
If(pipe, list, elseList) ==
    [kind |-> "If", Pipe |-> pipe, List |-> list, ElseList |-> elseList]
With(pipe, list, elseList) ==
    [kind |-> "With", Pipe |-> pipe, List |-> list, ElseList |-> elseList]
Template(name, pipe) == [kind |-> "Template", Name |-> name, Pipe |-> pipe]

\* {{.A.B}} and {{.}}
Ref(ident) == Action(Pipe(<<Cmd(<<Field(ident)>>)>>))
RefDot == Action(Pipe(<<Cmd(<<Dot>>)>>))

TextEmail == "{{.Email}}"
TextDashboard == "{{.Email}} {{.UserID}} {{range .Roles}}{{.}}{{end}}"
TextContent == "{{define \"content\"}}{{.Email}}{{end}}"
TextBroken == "{{.Email"
TextBase == "<html>{{block \"content\" .}}{{end}}</html>"

\* parse.Parse: the trees a text defines, by name, or an error
ParseError == [err |-> TRUE, trees |-> NoChildren]
Parsed(trees) == [err |-> FALSE, trees |-> trees]
Parse(name, text) ==
    CASE text = TextEmail ->
            Parsed(name :> List(<<Ref(<<"Email">>)>>))
      [] text = TextDashboard ->
            Parsed(name :> List(<<Ref(<<"Email">>), Text(" "),
                                  Ref(<<"UserID">>), Text(" "),
                                  Range(Pipe(<<Cmd(<<Field(<<"Roles">>)>>)>>),
                                        List(<<RefDot>>), NilNode)>>))
      [] text = TextContent ->
            Parsed(name :> List(<<>>)
                   @@ "content" :> List(<<Ref(<<"Email">>)>>))
      [] text = TextBase ->
            Parsed(name :> List(<<Text("<html>"),
                                  Template("content", Pipe(<<Cmd(<<Dot>>)>>)),
                                  Text("</html>")>>)
                   @@ "content" :> List(<<>>))
      [] OTHER -> ParseError

\* parse.IsEmptyTree
RECURSIVE IsEmptyTree(_)
IsEmptyTree(n) ==
    CASE n.kind = "nil" -> TRUE
      [] n.kind = "List" -> \A i \in 1..Len(n.Nodes) : IsEmptyTree(n.Nodes[i])
      [] n.kind = "Text" -> n.Text \in {"", " "}
      [] OTHER -> FALSE

\* a *template.Template stands for the set of templates associated with it:
\* name -> [Tree]; template.New("root") has no tree yet
NewTemplate(name) == name :> [Tree |-> NilNode]

\* t.New(name).Parse(text) on a set that parsed: every tree of the text is
\* added under its name, except that an empty tree does not replace a
\* template that has one
AddParseTrees(set, trees) ==
    [n \in DOMAIN set \cup DOMAIN trees |->
        IF n \notin DOMAIN trees THEN set[n]
        ELSE IF n \in DOMAIN set /\ IsEmptyTree(trees[n])
                /\ set[n].Tree # NilNode
        THEN set[n]
        ELSE [Tree |-> trees[n]]]

NoTemplate == [n \in {} |-> n]      \* a nil *template.Template
Lookup(set, name) == IF name \in DOMAIN set THEN set[name] ELSE NilNode
HasTree(t) == t # NilNode /\ t.Tree # NilNode


(***************************************************************************)
(* Sample data values, as reflect sees them.                               *)
(***************************************************************************)
NilValue == [Kind |-> "nil"]
String == [Kind |-> "string"]
Slice(elem) == [Kind |-> "slice", Elem |-> elem]
Ptr(elem) == [Kind |-> "ptr", Elem |-> elem]
\* a map value: its keys as fmt prints them, each with the dynamic type of
\* its element (NilValue for a nil interface)
Map(elems) == [Kind |-> "map", Elems |-> elems]
StructField(name, typ) == [Name |-> name, PkgPath |-> "", Type |-> typ]
Unexported(name, typ) == [Name |-> name, PkgPath |-> "web", Type |-> typ]
Struct(fields) == [Kind |-> "struct", Fields |-> fields]

HomeViewModel == Struct(<<StructField("Email", String)>>)
DashboardViewModel ==
    Struct(<<StructField("Email", String), StructField("UserID", String),
             StructField("Roles", Slice(String))>>)
ViewModels == {HomeViewModel, DashboardViewModel}

(***************************************************************************)
(* The view-model validator.  The extractors add to the tree they are      *)
(* given; parentField is named by its path from the root of that tree.     *)
(***************************************************************************)
\* the arguments of all commands of a pipeline, in order
RECURSIVE PipeArgs(_, _)
PipeArgs(cmds, i) ==
    IF i > Len(cmds) THEN <<>> ELSE cmds[i].Args \o PipeArgs(cmds, i + 1)

\* for every argument that is a field: the chain of addChild calls
RECURSIVE addFieldArgs(_, _, _, _)
addFieldArgs(args, i, tf, parentField) ==
    IF i > Len(args) THEN tf
    ELSE addFieldArgs(args, i + 1,
                      IF args[i].kind = "Field"
                      THEN addChild(tf, parentField \o args[i].Ident)
                      ELSE tf,
                      parentField)

RECURSIVE extractFieldsFromTemplate(_, _, _, _)
RECURSIVE extractNodes(_, _, _, _, _)
RECURSIVE extractTemplateArgs(_, _, _, _, _, _)

\* case *parse.ListNode
extractNodes(root, nodes, i, tf, parentField) ==
    IF i > Len(nodes) THEN tf
    ELSE extractNodes(root, nodes, i + 1,
                      extractFieldsFromTemplate(root, nodes[i], tf, parentField),
                      parentField)

\* case *parse.TemplateNode with a pipeline
extractTemplateArgs(root, name, args, i, tf, parentField) ==
    IF i > Len(args) THEN tf
    ELSE LET arg == args[i]
             tmpl == Lookup(root, name)
             under(t, parent) ==
                 IF HasTree(tmpl)
                 THEN extractFieldsFromTemplate(root, tmpl.Tree, t, parent)
                 ELSE t
             next ==
                 IF arg.kind = "Field"
                 THEN under(addChild(tf, parentField \o arg.Ident),
                            parentField \o arg.Ident)
                 ELSE IF arg.kind = "Dot" THEN under(tf, parentField)
                 ELSE tf
         IN  extractTemplateArgs(root, name, args, i + 1, next, parentField)

extractFieldsFromTemplate(root, n, tf, parentField) ==
    CASE n.kind = "Pipe" ->
            addFieldArgs(PipeArgs(n.Cmds, 1), 1, tf, parentField)
      [] n.kind = "Action" ->
            addFieldArgs(PipeArgs(n.Pipe.Cmds, 1), 1, tf, parentField)
      [] n.kind = "Template" ->
            IF n.Pipe # NilNode
            THEN extractTemplateArgs(root, n.Name, PipeArgs(n.Pipe.Cmds, 1), 1,
                                     tf, parentField)
            ELSE IF HasTree(Lookup(root, n.Name))
            THEN extractFieldsFromTemplate(root, Lookup(root, n.Name).Tree, tf,
                                           parentField)
            ELSE tf
      [] n.kind = "List" -> extractNodes(root, n.Nodes, 1, tf, parentField)
      [] n.kind = "If" ->
            LET then == extractFieldsFromTemplate(root, n.List, tf, parentField)
            IN  IF n.ElseList # NilNode
                THEN extractFieldsFromTemplate(root, n.ElseList, then,
                                               parentField)
                ELSE then
      [] n.kind = "Range" ->
            extractFieldsFromTemplate(root, n.Pipe, tf, parentField)
      [] n.kind = "With" ->
            extractFieldsFromTemplate(root, n.List, tf, parentField)
      [] OTHER -> tf

RECURSIVE extractFieldHelper(_, _, _)
RECURSIVE extractStructFields(_, _, _, _)

\* what is left of a tree when the goroutine building it panicked
NilTypePanic == [Name |-> "panic", Children |-> NoChildren]

\* the loop over typ.Field(i)
extractStructFields(fields, i, tf, parentField) ==
    IF i > Len(fields) THEN tf
    ELSE LET field == fields[i]
             child == parentField \o <<field.Name>>
             added == addChild(tf, child)
             next == IF field.PkgPath # "" THEN tf
                     ELSE IF field.Type.Kind = "struct"
                     THEN extractFieldHelper(field.Type, added, child)
                     ELSE added
         IN  extractStructFields(fields, i + 1, next, parentField)

\* reflect.TypeOf(nil) is a nil Type, and typ.Kind() on it panics
extractFieldHelper(typ, tf, parentField) ==
    LET t == IF typ.Kind = "ptr" THEN typ.Elem ELSE typ
    IN  IF typ = NilValue THEN NilTypePanic
        ELSE IF t.Kind # "struct" THEN tf
        ELSE extractStructFields(t.Fields, 1, tf, parentField)

\* the loop over val.MapKeys(); an element holds the type of its value
RECURSIVE extractMapKeys(_, _, _)
extractMapKeys(elems, keys, tf) ==
    IF keys = {} \/ tf = NilTypePanic THEN tf
    ELSE LET key == CHOOSE k \in keys : TRUE
             child == addChild(tf, <<key>>)
         IN  extractMapKeys(elems, keys \ {key},
                            extractFieldHelper(elems[key], child, <<key>>))

extractFieldsFromData(v) ==
    LET root == newTemplateField("Root")
        typ == IF v.Kind = "ptr" THEN v.Elem ELSE v
    IN  IF v = NilValue THEN root
        ELSE CASE typ.Kind = "map" ->
                    extractMapKeys(typ.Elems, DOMAIN typ.Elems, root)
               [] typ.Kind = "struct" -> extractFieldHelper(typ, root, <<>>)
               [] OTHER -> root

\* the blocks of the page that are validated
knownBlocks == <<"content", "nav", "head", "title">>
blockNames(tmpl, templatePath) ==
    <<templatePath>> \o SelectSeq(knownBlocks,
                                 LAMBDA name : Lookup(tmpl, name) # NilNode)

RECURSIVE extractBlocks(_, _, _, _)
extractBlocks(tmpl, names, i, tf) ==
    IF i > Len(names) THEN tf
    ELSE LET block == Lookup(tmpl, names[i])
         IN  extractBlocks(tmpl, names, i + 1,
                           IF HasTree(block)
                           THEN extractFieldsFromTemplate(tmpl, block.Tree, tf,
                                                          <<>>)
                           ELSE tf)

validateViewModelAllBlocks(data, tmpl, templatePath) ==
    validateFields(extractBlocks(tmpl, blockNames(tmpl, templatePath), 1,
                                 newTemplateField("Root")),
                   extractFieldsFromData(data))

(***************************************************************************)
(* The filesystem and the template manager.                                *)
(***************************************************************************)
defaultBaseTemplate == "base.html"
RootDir == "templates/www"
IncludeDir == "templates/include"

\* path.Join
Join(dir, name) == dir \o "/" \o name

\* the files the model knows, by directory, in lexical order
IncludeNames == <<"base.html">>
PageNames == <<"index.html", "u/dashboard.html">>
Range2Set(seq) == {seq[i] : i \in 1..Len(seq)}

\* the texts a file is given
Texts(file) ==
    IF file = Join(RootDir, "index.html")
    THEN {TextEmail, TextDashboard, TextContent, TextBroken}
    ELSE IF file = Join(RootDir, "u/dashboard.html")
    THEN {TextDashboard, TextBroken}
    ELSE {TextBase}

Files == {Join(IncludeDir, n) : n \in Range2Set(IncludeNames)}
         \cup {Join(RootDir, n) : n \in Range2Set(PageNames)}

\* fs.ReadDir: the names of the files of a directory, sorted
ReadDir(fs, dir) ==
    SelectSeq(IncludeNames, LAMBDA n : Join(dir, n) \in DOMAIN fs)

\* fs.WalkDir: the paths of the files below a directory, in lexical order
WalkDir(fs, dir) ==
    LET found == SelectSeq(PageNames, LAMBDA n : Join(dir, n) \in DOMAIN fs)
    IN  [i \in 1..Len(found) |-> Join(dir, found[i])]

\* mutant: the registry is keyed by the path the walk reports
relPath_Whole(base, target) == [err |-> FALSE, rel |-> target]

\* target without the prefix base and the "/" after it
relPath(base, target) ==
    LET names == Range2Set(IncludeNames) \cup Range2Set(PageNames)
    IN  IF base \in {".", ""} THEN [err |-> FALSE, rel |-> target]
        ELSE IF \E n \in names : target = Join(base, n)
        THEN [err |-> FALSE,
              rel |-> CHOOSE n \in names : target = Join(base, n)]
        ELSE [err |-> TRUE, rel |-> ""]

TemplateManagerOptions(rootDir, includeDir, baseTemplate, reload) ==
    [RootDir |-> rootDir, IncludeDir |-> includeDir,
     BaseTemplate |-> baseTemplate, Reload |-> reload]

NoManager == [none |-> TRUE]
TemplateManager(storedTemplates, baseExists, options) ==
    [storedTemplates |-> storedTemplates, baseExists |-> baseExists,
     options |-> options]

\* the loop over the entries of IncludeDir
RECURSIVE loadIncludes(_, _, _, _, _)
loadIncludes(fs, dir, names, i, includes) ==
    IF i > Len(names) THEN [err |-> FALSE, includes |-> includes]
    ELSE LET parsed == Parse(names[i], fs[Join(dir, names[i])])
         IN  IF parsed.err THEN [err |-> TRUE, includes |-> includes]
             ELSE loadIncludes(fs, dir, names, i + 1,
                               AddParseTrees(includes, parsed.trees))

\* the walk over RootDir: each page is parsed into a clone of the includes
RECURSIVE loadPages(_, _, _, _, _, _)
loadPages(fs, dir, paths, i, includes, stored) ==
    IF i > Len(paths) THEN [err |-> FALSE, stored |-> stored]
    ELSE LET rp == relPath(dir, paths[i])
             parsed == Parse(rp.rel, fs[paths[i]])
         IN  IF rp.err \/ parsed.err THEN [err |-> TRUE, stored |-> stored]
             ELSE loadPages(fs, dir, paths, i + 1, includes,
                            (rp.rel :> AddParseTrees(includes, parsed.trees))
                                @@ stored)

\* what it returns and what it leaves in the manager
\* what loadTemplates returns and leaves in the manager, inc being what the
\* include loop gave and pages what the walk gave
loadResult(opts, inc, pages) ==
    [err |-> pages.err,
     tm |-> TemplateManager(pages.stored,
                            Lookup(inc.includes, opts.BaseTemplate) # NilNode,
                            opts)]

\* loadTemplates from the base-template lookup on
loadRoot(opts, fs, inc) ==
    IF inc.err
    THEN [err |-> TRUE, tm |-> TemplateManager(NoTemplate, FALSE, opts)]
    ELSE loadResult(opts, inc,
                    loadPages(fs, opts.RootDir, WalkDir(fs, opts.RootDir), 1,
                              inc.includes, NoTemplate))

\* the includes the load parses, IncludeDir permitting
includesOf(opts, fs) ==
    IF opts.IncludeDir # ""
    THEN loadIncludes(fs, opts.IncludeDir, ReadDir(fs, opts.IncludeDir), 1,
                      NewTemplate("root"))
    ELSE [err |-> FALSE, includes |-> NewTemplate("root")]

loadTemplates(m, fs) == loadRoot(m.options, fs, includesOf(m.options, fs))

\* return nil, err or return tm, nil
constructed(loaded) ==
    IF loaded.err THEN [err |-> TRUE, tm |-> NoManager] ELSE loaded

NewTemplateManager(options, fs) ==
    constructed(loadTemplates(
        TemplateManager(NoTemplate, FALSE,
                        IF options.BaseTemplate = ""
                        THEN [options EXCEPT
                                !.BaseTemplate = defaultBaseTemplate]
                        ELSE options),
        fs))

IsDev(c) == c.Environment = "dev"

\* the options initTemplates builds
initTemplates(c) ==
    TemplateManagerOptions(RootDir, IncludeDir, "", IsDev(c))

\* the result of a call that looks a template up
Got(err, tmpl, m, reloaded) ==
    [err |-> err, tmpl |-> tmpl, tm |-> m, reloaded |-> reloaded]

\* mutant: the templates of the last load are served
getTemplateForExecution_Cached(m, fs, templatePath) ==
    LET tmpl == Lookup(m.storedTemplates, templatePath)
    IN  IF tmpl = NilNode THEN Got("notfound", NoTemplate, m, FALSE)
        ELSE Got("", tmpl, m, FALSE)

\* the lookup after the reload, if there was one
lookedUp(loaded, reloaded, templatePath) ==
    IF loaded.err THEN Got("reload", NoTemplate, loaded.tm, TRUE)
    ELSE IF Lookup(loaded.tm.storedTemplates, templatePath) = NilNode
    THEN Got("notfound", NoTemplate, loaded.tm, reloaded)
    ELSE Got("", loaded.tm.storedTemplates[templatePath], loaded.tm, reloaded)

getTemplateForExecution(m, fs, templatePath) ==
    lookedUp(IF m.options.Reload THEN loadTemplates(m, fs)
             ELSE [err |-> FALSE, tm |-> m],
             m.options.Reload, templatePath)

usesBaseLayout(tmpl) == Lookup(tmpl, "content") # NilNode

NoExecutor == [none |-> TRUE]
TemplateExecutor(templateName, baseTemplateName) ==
    [templateName |-> templateName, baseTemplateName |-> baseTemplateName]

\* mutant: the executor is handed out without looking at the model
getExecutor_Unchecked(m, templatePath, exampleModel) ==
    LET tmpl == Lookup(m.storedTemplates, templatePath)
    IN  IF tmpl = NilNode THEN [err |-> "notfound", executor |-> NoExecutor]
        ELSE [err |-> "",
              executor |-> TemplateExecutor(templatePath,
                                            m.options.BaseTemplate)]

getExecutor(m, templatePath, exampleModel) ==
    LET tmpl == Lookup(m.storedTemplates, templatePath)
    IN  IF tmpl = NilNode THEN [err |-> "notfound", executor |-> NoExecutor]
        ELSE IF validateViewModelAllBlocks(exampleModel, tmpl,
                                           templatePath).failed
        THEN [err |-> "validate", executor |-> NoExecutor]
        ELSE [err |-> "",
              executor |-> TemplateExecutor(templatePath,
                                            m.options.BaseTemplate)]

\* the validation of the template that was looked up
validated(got, templatePath, exampleModel) ==
    IF got.err # "" THEN got
    ELSE IF validateViewModelAllBlocks(exampleModel, got.tmpl,
                                       templatePath).failed
    THEN Got("validate", NoTemplate, got.tm, got.reloaded)
    ELSE got

GetTemplate(m, fs, templatePath, exampleModel) ==
    validated(lookedUp(IF m.options.Reload THEN loadTemplates(m, fs)
                       ELSE [err |-> FALSE, tm |-> m],
                       m.options.Reload, templatePath),
              templatePath, exampleModel)

(***************************************************************************)
(* Startup, route construction and requests.                               *)
(***************************************************************************)
Configs == {[Environment |-> "dev"], [Environment |-> "prod"]}

\* every way the files can be when the application starts
FileSystems ==
    UNION {{fs \in [present -> UNION {Texts(f) : f \in Files}] :
               \A f \in present : fs[f] \in Texts(f)} :
             present \in SUBSET Files}

\* a route handler: its executor (or, from TemplateRoute, its template);
\* exampleModel and, for an executor, tmpl are history: what construction
\* validated
NoHandler == [none |-> TRUE]
Handler(kind, te, exampleModel, tmpl) ==
    [kind |-> kind, templateName |-> te.templateName,
     baseTemplateName |-> te.baseTemplateName,
     exampleModel |-> exampleModel, tmpl |-> tmpl]

\* history: one call into the template layer and what came of it
Rendered(op, templatePath, exampleModel, err, reloaded, tmpl, execName) ==
    [op |-> op, templatePath |-> templatePath, exampleModel |-> exampleModel,
     err |-> err, reloaded |-> reloaded, tmpl |-> tmpl, execName |-> execName]
Idle(op) == Rendered(op, "", NilValue, "", FALSE, NoTemplate, "")

\* tmpl.ExecuteTemplate: fails when no template of that name has a tree,
\* and otherwise as the data and the writer have it
ExecuteTemplate(tmpl, name, fails) ==
    IF ~HasTree(Lookup(tmpl, name)) THEN TRUE ELSE fails

\* what ExecuteToWriter returns and what it does to the manager
\* ExecuteToWriter once it has the template
executed(got, execName, fails) ==
    [err |-> IF ExecuteTemplate(got.tmpl, execName, fails) THEN "execute"
             ELSE "",
     tmpl |-> got.tmpl, tm |-> got.tm, reloaded |-> got.reloaded,
     execName |-> execName]

written(got, te, fails) ==
    IF got.err # ""
    THEN [err |-> got.err, tmpl |-> NoTemplate, tm |-> got.tm,
          reloaded |-> got.reloaded, execName |-> ""]
    ELSE executed(got,
                  IF usesBaseLayout(got.tmpl) /\ got.tm.baseExists
                  THEN te.baseTemplateName
                  ELSE te.templateName,
                  fails)

ExecuteToWriter(m, fs, te, fails) ==
    written(getTemplateForExecution(m, fs, te.templateName), te, fails)

\* main: config.Load, then RegisterRoutes calls initTemplates
InitTemplates ==
    /\ pc = "init"
    /\ \E made \in {NewTemplateManager(initTemplates(cfg), fsys)} :
          /\ tm' = made.tm
          /\ pc' = IF made.err THEN "panicked" ELSE "routes"
          /\ render' = Rendered("initTemplates", "", NilValue,
                                IF made.err THEN "load" ELSE "", TRUE,
                                NoTemplate, "")
    /\ UNCHANGED <<cfg, fsys, handler, authVars, cmpVars, extVars>>

\* somebody edits or adds a file
WriteFile ==
    \E f \in Files, text \in UNION {Texts(g) : g \in Files} :
        /\ text \in Texts(f)
        /\ f \in DOMAIN fsys => fsys[f] # text
        /\ fsys' = (f :> text) @@ fsys
        /\ render' = Idle("WriteFile")
        /\ UNCHANGED <<cfg, tm, handler, pc, authVars, cmpVars, extVars>>

\* somebody removes a file
RemoveFile ==
    \E f \in DOMAIN fsys :
        /\ fsys' = [g \in DOMAIN fsys \ {f} |-> fsys[g]]
        /\ render' = Idle("RemoveFile")
        /\ UNCHANGED <<cfg, tm, handler, pc, authVars, cmpVars, extVars>>

\* a route is built with ExecutorRoute
ExecutorRoute ==
    /\ pc = "routes" /\ handler = NoHandler
    /\ \E templatePath \in Range2Set(PageNames), exampleModel \in ViewModels :
       \E made \in {getExecutor(tm, templatePath, exampleModel)} :
          /\ IF made.err # ""
             THEN pc' = "panicked" /\ handler' = NoHandler
             ELSE /\ pc' = pc
                  /\ handler' = Handler("ExecutorRoute", made.executor,
                                        exampleModel,
                                        tm.storedTemplates[templatePath])
          /\ render' = Rendered("ExecutorRoute", templatePath, exampleModel,
                                made.err, FALSE, NoTemplate, "")
    /\ UNCHANGED <<cfg, fsys, tm, authVars, cmpVars, extVars>>

\* a route is built with TemplateRoute
TemplateRoute ==
    /\ pc = "routes" /\ handler = NoHandler
    /\ \E templatePath \in Range2Set(PageNames), exampleModel \in ViewModels :
       \E got \in {GetTemplate(tm, fsys, templatePath, exampleModel)} :
          /\ tm' = got.tm
          /\ IF got.err # ""
             THEN pc' = "panicked" /\ handler' = NoHandler
             ELSE /\ pc' = pc
                  /\ handler' = Handler("TemplateRoute",
                                        TemplateExecutor(templatePath, ""),
                                        exampleModel, got.tmpl)
          /\ render' = Rendered("TemplateRoute", templatePath, exampleModel,
                                got.err, got.reloaded, got.tmpl, "")
    /\ UNCHANGED <<cfg, fsys, authVars, cmpVars, extVars>>

\* what BuildHandler finds wrong with the path and the model
buildError(m, templatePath, exampleModel) ==
    IF Lookup(m.storedTemplates, templatePath) = NilNode THEN "notfound"
    ELSE IF validateViewModelAllBlocks(exampleModel,
                                       m.storedTemplates[templatePath],
                                       templatePath).failed
    THEN "validate"
    ELSE ""

\* registry.BuildHandler, as the views call it: the renderer is handed out
\* when the path is in the registry and the example model passes validation
BuildHandler ==
    /\ pc = "routes" /\ handler = NoHandler
    /\ \E templatePath \in Range2Set(PageNames), exampleModel \in ViewModels :
       \E err \in {buildError(tm, templatePath, exampleModel)} :
          /\ IF err # ""
             THEN pc' = "panicked" /\ handler' = NoHandler
             ELSE /\ pc' = pc
                  /\ handler' = Handler("BuildHandler",
                                        TemplateExecutor(templatePath,
                                            tm.options.BaseTemplate),
                                        exampleModel,
                                        tm.storedTemplates[templatePath])
          /\ render' = Rendered("BuildHandler", templatePath, exampleModel,
                                err, FALSE, NoTemplate, "")
    /\ UNCHANGED <<cfg, fsys, tm, authVars, cmpVars, extVars>>

\* server.ListenAndServe
Serve ==
    /\ pc = "routes"
    /\ pc' = "serving"
    /\ render' = Idle("ListenAndServe")
    /\ UNCHANGED <<cfg, fsys, tm, handler, authVars, cmpVars, extVars>>

\* a request to a route built with ExecutorRoute: fn calls ExecuteToWriter
RequestExecutor ==
    /\ pc = "serving" /\ handler # NoHandler
    /\ handler.kind = "ExecutorRoute"
    /\ \E fails \in BOOLEAN :
       \E done \in {ExecuteToWriter(tm, fsys, handler, fails)} :
          /\ tm' = done.tm
          /\ render' = Rendered("ExecuteToWriter", handler.templateName,
                                handler.exampleModel, done.err,
                                done.reloaded, done.tmpl, done.execName)
    /\ UNCHANGED <<cfg, fsys, handler, pc, authVars, cmpVars, extVars>>

\* a request to a route built with BuildHandler: fn calls te.WriteTo, taken
\* to render as ExecuteToWriter does
RequestRenderer ==
    /\ pc = "serving" /\ handler # NoHandler
    /\ handler.kind = "BuildHandler"
    /\ \E fails \in BOOLEAN :
       \E done \in {ExecuteToWriter(tm, fsys, handler, fails)} :
          /\ tm' = done.tm
          /\ render' = Rendered("WriteTo", handler.templateName,
                                handler.exampleModel, done.err,
                                done.reloaded, done.tmpl, done.execName)
    /\ UNCHANGED <<cfg, fsys, handler, pc, authVars, cmpVars, extVars>>

\* a request to a route built with TemplateRoute: fn executes the template
\* construction handed it
RequestTemplate ==
    /\ pc = "serving" /\ handler # NoHandler
    /\ handler.kind = "TemplateRoute"
    /\ \E fails \in BOOLEAN :
          render' = Rendered("TemplateRouteFn", handler.templateName,
                             handler.exampleModel,
                             IF ExecuteTemplate(handler.tmpl,
                                                handler.templateName, fails)
                             THEN "execute" ELSE "",
                             FALSE, handler.tmpl, handler.templateName)
    /\ UNCHANGED <<cfg, fsys, tm, handler, pc, authVars, cmpVars, extVars>>

\* the data handlers.Home renders
HomeData == Struct(<<StructField("Email", String)>>)

\* handlers.Home: GetTemplate on every request, then the base layout
Home ==
    /\ pc = "serving"
    /\ \E fails \in BOOLEAN :
       \E got \in {GetTemplate(tm, fsys, "index.html", HomeData)} :
          /\ tm' = got.tm
          /\ render' = Rendered("GetTemplate", "index.html", HomeData,
                                IF got.err # "" THEN got.err
                                ELSE IF ExecuteTemplate(got.tmpl, "base.html",
                                                        fails)
                                THEN "execute" ELSE "",
                                got.reloaded, got.tmpl,
                                IF got.err # "" THEN "" ELSE "base.html")
    /\ UNCHANGED <<cfg, fsys, handler, pc, authVars, cmpVars, extVars>>

(***************************************************************************)
(* Requests served concurrently.  net/http runs every request in its own   *)
(* goroutine; here ExecuteToWriter is taken apart at the points where the  *)
(* goroutines can interleave: the lock of loadTemplates, its two phases    *)
(* under the lock, the lookup under the read lock, and the read of         *)
(* baseExists, which takes no lock.                                        *)
(***************************************************************************)
MaxRequests == 2    \* goroutines serving requests at the same time
Goroutines == 1..MaxRequests
Unlocked == 0

\* a goroutine: where it is in ExecuteToWriter, the includes its load has
\* parsed, the template it looked up and what it executed
Request(at, includes, tmpl, execName, err) ==
    [pc |-> at, includes |-> includes, tmpl |-> tmpl, execName |-> execName,
     err |-> err]
IdleRequest == Request("idle", NoTemplate, NoTemplate, "", "")
Returns(err) == Request("done", NoTemplate, NoTemplate, "", err)

\* the server hands a request to the route handler: fn calls ExecuteToWriter,
\* which calls getTemplateForExecution
Accept(r) ==
    /\ pc = "serving" /\ handler # NoHandler
    /\ handler.kind = "ExecutorRoute"
    /\ reqs[r].pc = "idle"
    /\ reqs' = [reqs EXCEPT ![r].pc = IF tm.options.Reload THEN "lock"
                                      ELSE "lookup"]
    /\ UNCHANGED <<mu, tplVars, concOthers>>

\* loadTemplates: tm.mu.Lock(), then the registry and baseExists are reset
LockTemplates(r) ==
    /\ reqs[r].pc = "lock"
    /\ mu = Unlocked
    /\ mu' = r
    /\ tm' = [tm EXCEPT !.storedTemplates = NoTemplate, !.baseExists = FALSE]
    /\ reqs' = [reqs EXCEPT ![r].pc = "includes"]
    /\ UNCHANGED <<cfg, fsys, handler, pc, render, concOthers>>

\* loadTemplates: the includes are parsed and the base template is looked up
LoadIncludes(r) ==
    /\ reqs[r].pc = "includes"
    /\ \E inc \in {includesOf(tm.options, fsys)} :
          IF inc.err
          THEN /\ mu' = Unlocked
               /\ reqs' = [reqs EXCEPT ![r] = Returns("reload")]
               /\ tm' = tm
          ELSE /\ mu' = mu
               /\ reqs' = [reqs EXCEPT ![r].pc = "pages",
                                       ![r].includes = inc.includes]
               /\ tm' = [tm EXCEPT !.baseExists =
                            Lookup(inc.includes, tm.options.BaseTemplate)
                                # NilNode]
    /\ UNCHANGED <<cfg, fsys, handler, pc, render, concOthers>>

\* loadTemplates: the walk over RootDir fills the registry; the deferred
\* Unlock runs when it returns
LoadPages(r) ==
    /\ reqs[r].pc = "pages"
    /\ \E pages \in {loadPages(fsys, tm.options.RootDir,
                               WalkDir(fsys, tm.options.RootDir), 1,
                               reqs[r].includes, NoTemplate)} :
          /\ tm' = [tm EXCEPT !.storedTemplates = pages.stored]
          /\ reqs' = [reqs EXCEPT ![r] = IF pages.err THEN Returns("reload")
                                         ELSE [@ EXCEPT !.pc = "lookup"]]
    /\ mu' = Unlocked
    /\ UNCHANGED <<cfg, fsys, handler, pc, render, concOthers>>

\* getTemplateForExecution: the lookup under tm.mu.RLock()
LookupTemplate(r) ==
    /\ reqs[r].pc = "lookup"
    /\ mu = Unlocked
    /\ \E tmpl \in {Lookup(tm.storedTemplates, handler.templateName)} :
          reqs' = [reqs EXCEPT ![r] =
                      IF tmpl = NilNode THEN Returns("notfound")
                      ELSE [@ EXCEPT !.pc = "layout", !.tmpl = tmpl]]
    /\ UNCHANGED <<mu, tplVars, concOthers>>

\* ExecuteToWriter from the choice of execName on: te.manager.baseExists is
\* read as it is at this moment, whoever holds the lock
ExecuteLayout(r) ==
    /\ reqs[r].pc = "layout"
    /\ \E fails \in BOOLEAN :
       \E done \in {written(Got("", reqs[r].tmpl, tm, tm.options.Reload),
                            handler, fails)} :
          reqs' = [reqs EXCEPT ![r] = Request("done", NoTemplate, done.tmpl,
                                              done.execName, done.err)]
    /\ UNCHANGED <<mu, tplVars, concOthers>>

\* the handler returns and the goroutine takes the next request
Return(r) ==
    /\ reqs[r].pc = "done"
    /\ reqs' = [reqs EXCEPT ![r] = IdleRequest]
    /\ UNCHANGED <<mu, tplVars, concOthers>>


(***************************************************************************)
(* Startup migrations.  Every application instance calls Migrate from main *)
(* before it serves; the instances share one database.  An instance is a   *)
(* Postgres session: it holds the advisory lock from the moment            *)
(* pg_advisory_lock returns until it unlocks or its connection closes.     *)
(***************************************************************************)
MaxInstances == 2       \* application instances started together
Instances == 1..MaxInstances
NoSessionHolds == 0     \* the advisory lock is free
LatestVersion == 2      \* the newest migration of migrations/*.sql

\* mutant: the lock is granted whoever holds it
pg_advisory_lock_Ungated(lock, session) == TRUE

\* SELECT pg_advisory_lock(1) returns once no other session holds the lock
pg_advisory_lock(lock, session) == lock \in {NoSessionHolds, session}

\* SELECT pg_advisory_unlock(1), and the end of a session: the lock is
\* released if this session holds it
pg_advisory_unlock(lock, session) ==
    IF lock = session THEN NoSessionHolds ELSE lock

\* an instance: where it is in Migrate, whether it is between acquiring the
\* lock and releasing it, and what Migrate returns
Instance(at, held, err) == [pc |-> at, held |-> held, err |-> err]
NotStarted == Instance("start", FALSE, "")

\* pgx.Connect
Connect(i) ==
    /\ instances[i].pc = "start"
    /\ \E ok \in BOOLEAN :
          instances' = [instances EXCEPT ![i] =
                           IF ok THEN Instance("connected", FALSE, "")
                           ELSE Instance("exited", FALSE, "connect")]
    /\ UNCHANGED <<advisoryLock, schemaVersion, migOthers>>

\* conn.Exec of pg_advisory_lock: it waits for the lock, or fails; on the
\* failure the deferred conn.Close ends the session
AcquireLock(i) ==
    /\ instances[i].pc = "connected"
    /\ \/ /\ pg_advisory_lock(advisoryLock, i)
          /\ advisoryLock' = i
          /\ instances' = [instances EXCEPT ![i] = Instance("locked", TRUE, "")]
       \/ /\ advisoryLock' = pg_advisory_unlock(advisoryLock, i)
          /\ instances' = [instances EXCEPT ![i] =
                              Instance("exited", FALSE, "lock")]
    /\ UNCHANGED <<schemaVersion, migOthers>>

\* iofs.New and migrate.NewWithSourceInstance
NewWithSourceInstance(i) ==
    /\ instances[i].pc = "locked"
    /\ \E err \in {"", "source", "instance"} :
          instances' = [instances EXCEPT ![i] =
                           IF err = "" THEN Instance("ready", TRUE, "")
                           ELSE Instance("returning", TRUE, err)]
    /\ UNCHANGED <<advisoryLock, schemaVersion, migOthers>>

\* m.Up starts
StartUp(i) ==
    /\ instances[i].pc = "ready"
    /\ instances' = [instances EXCEPT ![i].pc = "migrating"]
    /\ UNCHANGED <<advisoryLock, schemaVersion, migOthers>>

\* m.Up returns: ErrNoChange (Migrate returns nil) when the database is at
\* the newest version, and otherwise nil with the migrations applied, or an
\* error
FinishUp(i) ==
    /\ instances[i].pc = "migrating"
    /\ IF schemaVersion = LatestVersion
       THEN /\ instances' = [instances EXCEPT ![i] =
                                Instance("returning", TRUE, "")]
            /\ schemaVersion' = schemaVersion
       ELSE \E ok \in BOOLEAN :
            /\ instances' = [instances EXCEPT ![i] =
                                Instance("returning", TRUE,
                                         IF ok THEN "" ELSE "up")]
            /\ schemaVersion' = IF ok THEN LatestVersion ELSE schemaVersion
    /\ UNCHANGED <<advisoryLock, migOthers>>

\* the deferred pg_advisory_unlock; a failure is logged
Unlock(i) ==
    /\ instances[i].pc = "returning"
    /\ \E ok \in BOOLEAN :
          /\ advisoryLock' = IF ok THEN pg_advisory_unlock(advisoryLock, i)
                             ELSE advisoryLock
          /\ instances' = [instances EXCEPT ![i].pc = "closing",
                                            ![i].held = ~ok]
    /\ UNCHANGED <<schemaVersion, migOthers>>

\* the deferred conn.Close: the session ends
CloseConn(i) ==
    /\ instances[i].pc = "closing"
    /\ advisoryLock' = pg_advisory_unlock(advisoryLock, i)
    /\ instances' = [instances EXCEPT ![i].pc = "exited", ![i].held = FALSE]
    /\ UNCHANGED <<schemaVersion, migOthers>>


(***************************************************************************)
(* Server-sent events: one connection.  The handler ConfigureSSE returns   *)
(* and the producer views.SSE hands it run as two goroutines that meet on  *)
(* an unbuffered channel; the ticker and the cancellation of the request   *)
(* context come from outside.                                              *)
(***************************************************************************)
MaxMessages == 3    \* messages the producer offers on one connection

\* generateTime(): the messages are told apart by their number
generateTime(n) == n + 1

\* fmt.Fprintf(w, "data: %s\n\n", data)
Frame(data) == <<"data: ", data, "\n\n">>

\* the handler: where it is, the message it took, the frames written, how
\* many of them are flushed, the goroutines it started and why it returned
SSEHandler(at, data, response, flushed, started, err) ==
    [pc |-> at, data |-> data, response |-> response, flushed |-> flushed,
     started |-> started, err |-> err]

\* the producer: where it is, the messages it has handed over, and its
\* ticker (a tick waits in ticker.C; Stop has run)
Producer(at, sent, tick, stopped) ==
    [pc |-> at, sent |-> sent, tick |-> tick, stopped |-> stopped]

\* the points where the producer offers a message on the channel
Sending == {"initial", "send"}

\* the handler up to its loop: headers, the channel, go newClient(...);
\* the producer starts its ticker
StartProducer ==
    /\ sseHandler.pc = "start"
    /\ sseHandler' = [sseHandler EXCEPT !.pc = "select",
                                        !.started = @ + 1]
    /\ producer' = Producer("initial", <<>>, FALSE, FALSE)
    /\ UNCHANGED <<ctxDone, sseOthers>>

\* case data := <-clientChannel meets a send of the producer
Receive ==
    /\ sseHandler.pc = "select"
    /\ producer.pc \in Sending
    /\ sseHandler' = [sseHandler EXCEPT
                         !.pc = "write",
                         !.data = generateTime(Len(producer.sent))]
    /\ producer' = [producer EXCEPT
                       !.pc = "tick",
                       !.sent = Append(@, generateTime(Len(producer.sent)))]
    /\ UNCHANGED <<ctxDone, sseOthers>>

\* case <-done: return
HandlerDone ==
    /\ sseHandler.pc = "select"
    /\ ctxDone
    /\ sseHandler' = [sseHandler EXCEPT !.pc = "returned", !.err = "done"]
    /\ UNCHANGED <<ctxDone, producer, sseOthers>>

\* mutant: a failed write is passed over
Write_IgnoresError ==
    /\ sseHandler.pc = "write"
    /\ \E ok \in BOOLEAN :
          sseHandler' = [sseHandler EXCEPT
                            !.pc = "flush",
                            !.err = IF ok THEN "" ELSE "write",
                            !.response = IF ok
                                         THEN Append(@, Frame(sseHandler.data))
                                         ELSE @]
    /\ UNCHANGED <<ctxDone, producer, sseOthers>>

\* fmt.Fprintf to the response; if err != nil { return }
Write ==
    /\ sseHandler.pc = "write"
    /\ \E ok \in BOOLEAN :
          sseHandler' = IF ok
                        THEN [sseHandler EXCEPT
                                 !.pc = "flush",
                                 !.response = Append(@, Frame(sseHandler.data))]
                        ELSE [sseHandler EXCEPT !.pc = "returned",
                                                !.err = "write"]
    /\ UNCHANGED <<ctxDone, producer, sseOthers>>

\* mutant: the loop goes on without the flush
Flush_Skipped ==
    /\ sseHandler.pc = "flush"
    /\ sseHandler' = [sseHandler EXCEPT !.pc = "select"]
    /\ UNCHANGED <<ctxDone, producer, sseOthers>>

\* rc.Flush(), then the loop again
Flush ==
    /\ sseHandler.pc = "flush"
    /\ sseHandler' = [sseHandler EXCEPT !.pc = "select",
                                        !.flushed = Len(sseHandler.response)]
    /\ UNCHANGED <<ctxDone, producer, sseOthers>>

\* the ticker puts a tick in ticker.C, which holds one
TickerFires ==
    /\ producer.pc \notin {"none", "returned"}
    /\ ~producer.stopped /\ ~producer.tick
    /\ Len(producer.sent) < MaxMessages
    /\ producer' = [producer EXCEPT !.tick = TRUE]
    /\ UNCHANGED <<ctxDone, sseHandler, sseOthers>>

\* case <-ticker.C
TakeTick ==
    /\ producer.pc = "tick"
    /\ producer.tick
    /\ producer' = [producer EXCEPT !.pc = "send", !.tick = FALSE]
    /\ UNCHANGED <<ctxDone, sseHandler, sseOthers>>

\* mutant: only the select that waits for the tick watches the context
ProducerDone_OnlyAtTick ==
    /\ producer.pc = "tick"
    /\ ctxDone
    /\ producer' = [producer EXCEPT !.pc = "returned", !.stopped = TRUE]
    /\ UNCHANGED <<ctxDone, sseHandler, sseOthers>>

\* case <-ctx.Done(): return, in any of the three selects; the deferred
\* ticker.Stop runs
ProducerDone ==
    /\ producer.pc \in Sending \cup {"tick"}
    /\ ctxDone
    /\ producer' = [producer EXCEPT !.pc = "returned", !.stopped = TRUE]
    /\ UNCHANGED <<ctxDone, sseHandler, sseOthers>>

\* handlers.SSE: messageChan <- generateTime(), then a goroutine that ranges
\* over time.NewTicker(time.Second).C and sends.  Its sends are the ones of
\* Receive and its ticks are taken as in TakeTick; the ticker exists once the
\* first message is handed over, nothing stops it, and no statement of the
\* producer reads ctx
LoopTickerFires ==
    /\ producer.pc \in {"tick", "send"}
    /\ ~producer.tick
    /\ Len(producer.sent) < MaxMessages
    /\ producer' = [producer EXCEPT !.tick = TRUE]
    /\ UNCHANGED <<ctxDone, sseHandler, sseOthers>>

\* the request context is cancelled: the client went away, the server shuts
\* down, or the handler has returned
Cancel ==
    /\ ~ctxDone
    /\ ctxDone' = TRUE
    /\ UNCHANGED <<sseHandler, producer, sseOthers>>


(***************************************************************************)
(* The session store on its own: sessions written by SetSession, read back *)
(* by GetSession, rewritten by RefreshToken, and blobs the service cannot  *)
(* open (sealed under another key, or not a serialized token).             *)
(***************************************************************************)
MaxStored == 1      \* sessions written: ids 1..MaxStored

StoredTokens ==
    [AccessToken : 1..2, TokenType : {"Bearer"}, RefreshToken : 0..1,
     Expiry : 0..1]
RoleLists == {<<>>, <<"admin">>, <<"admin", "user">>}
SessionExpiries == 1..2

TokenStore(given, damaged, op, sid, result) ==
    [given |-> given, damaged |-> damaged, op |-> op, sid |-> sid,
     result |-> result]
NothingStored == TokenStore([s \in {} |-> 0], {}, "none", 0, NoSession)

\* the handler's calls UpsertUser and SetSession, for any token and roles
StoreSession ==
    /\ nextSid < MaxStored
    /\ \E sub \in Subs, token \in StoredTokens, roles \in RoleLists,
          expires \in SessionExpiries :
        LET displayName == IF ClaimsName(sub) = "" THEN Email(sub)
                           ELSE ClaimsName(sub)
            upserted == UpsertUser(users, sub, Email(sub), displayName)
            sessionID == nextSid + 1
            session ==
                [Token |-> token, IDToken |-> RawIDToken(sub), UserID |-> sub,
                 UserDBID |-> upserted[sub].id, Email |-> Email(sub),
                 DisplayName |-> displayName, Roles |-> roles,
                 Expires |-> expires]
        IN  /\ users' = upserted
            /\ sessions' = SetSession(sessions, sessionID, session)
            /\ nextSid' = sessionID
            /\ tok' = TokenStore(
                        [s \in DOMAIN tok.given \cup {sessionID} |->
                            IF s = sessionID THEN session ELSE tok.given[s]],
                        tok.damaged, "SetSession", sessionID, NoSession)
    /\ UNCHANGED <<now, oidcLogoutURL, loggedOut, last, sweeper, svcOthers>>

\* GetSession on any session id
ReadSession ==
    /\ \E sid \in 1..MaxStored :
        tok' = TokenStore(tok.given, tok.damaged, "GetSession", sid,
                          GetSession(sessions, users, sid))
    /\ UNCHANGED <<authVars, sweeper, svcOthers>>

\* RefreshToken on a session the middleware has read
RefreshStored ==
    /\ \E sid \in DOMAIN sessions, o \in RefreshOutcomes :
        /\ GetSession(sessions, users, sid) # NoSession
        /\ \E r \in {RefreshToken(sessions, now, sid,
                                  GetSession(sessions, users, sid),
                                  o.prov, o.dbOk)} :
            /\ sessions' = r.store
            /\ tok' = TokenStore(
                        IF r.wrote
                        THEN [tok.given EXCEPT ![sid].Token = r.session.Token]
                        ELSE tok.given,
                        tok.damaged, "RefreshToken", sid, r.session)
    /\ UNCHANGED <<now, users, nextSid, oidcLogoutURL, loggedOut, last,
                   sweeper, svcOthers>>

\* the blobs of a row the service cannot open: the row was sealed under the
\* key of an earlier configuration, or holds bytes that are no token
Unreadable(row) ==
    {encrypt(decrypt(row.token_data, SecretKey).plaintext, "k16"),
     encrypt(NotJSON, SecretKey)}

\* a row whose token_data the running service cannot open
LoseBlob ==
    /\ \E sid \in DOMAIN sessions \ tok.damaged :
        \E blob \in Unreadable(sessions[sid]) :
            /\ sessions' = UpdateSessionToken(sessions, sid, blob)
            /\ tok' = TokenStore(tok.given, tok.damaged \cup {sid},
                                 "none", sid, NoSession)
    /\ UNCHANGED <<now, users, nextSid, oidcLogoutURL, loggedOut, last,
                   sweeper, svcOthers>>

(***************************************************************************)
(* main from the moment it serves.  When main returns, or log.Fatalf ends  *)
(* the process, every goroutine of the process ends where it stands.       *)
(***************************************************************************)
ShutdownDeadline == 10      \* seconds of shutdownCtx
Signals == {"SIGINT", "SIGTERM"}

\* at: where main is; sig: the signal taken from quit; called: server.Shutdown
\* has been called; deadline: the timeout of the context it was called with
Main(at, sig, called, deadline) ==
    [at |-> at, sig |-> sig, called |-> called, deadline |-> deadline]
NotServing == Main("none", "none", FALSE, 0)

\* the process has not ended
Running == shutdown.at \notin {"returned", "fatal"}

(***************************************************************************)
(* The goroutine main starts to sweep expired sessions.                    *)
(***************************************************************************)
MaxSweeps == 2      \* ticks the sweeper's ticker delivers

\* at: where the goroutine is; tick: ticker.C holds a tick; fired: ticks the
\* ticker has delivered to ticker.C; runs: sweeps that succeeded; logged:
\* sweeps that failed, each logged; done: ctx.Done() is closed
Sweeper(at, tick, fired, runs, logged, done) ==
    [at |-> at, tick |-> tick, fired |-> fired, runs |-> runs,
     logged |-> logged, done |-> done]
NotSweeping == Sweeper("none", FALSE, 0, 0, 0, FALSE)

\* go func() { ticker := time.NewTicker(1 * time.Hour) ...
StartSweeper ==
    /\ Running
    /\ sweeper.at = "none"
    /\ sweeper' = [sweeper EXCEPT !.at = "select"]
    /\ UNCHANGED <<authVars, tok, svcOthers>>

\* a period has passed: the ticker puts a tick on ticker.C, which holds one
SweepTickerFires ==
    /\ Running
    /\ sweeper.at \in {"select", "sweeping"}
    /\ ~sweeper.tick
    /\ sweeper.fired < MaxSweeps
    /\ sweeper' = [sweeper EXCEPT !.tick = TRUE, !.fired = @ + 1]
    /\ UNCHANGED <<authVars, tok, svcOthers>>

\* case <-ticker.C
SweepTakeTick ==
    /\ Running
    /\ sweeper.at = "select"
    /\ sweeper.tick
    /\ sweeper' = [sweeper EXCEPT !.at = "sweeping", !.tick = FALSE]
    /\ UNCHANGED <<authVars, tok, svcOthers>>

\* mutant: the goroutine returns when a sweep fails
DeleteExpired_StopsOnError ==
    /\ Running
    /\ sweeper.at = "sweeping"
    /\ \E dbOk \in IF sweeper.done THEN {FALSE} ELSE BOOLEAN :
        /\ sessions' = IF dbOk THEN DeleteExpiredSessions(sessions, now)
                       ELSE sessions
        /\ sweeper' = IF dbOk
                      THEN [sweeper EXCEPT !.at = "select", !.runs = @ + 1]
                      ELSE [sweeper EXCEPT !.at = "returned", !.logged = @ + 1]
        /\ last' = Quiet(IF dbOk THEN "Sweep" ELSE "SweepFailed")
    /\ UNCHANGED <<now, users, nextSid, oidcLogoutURL, loggedOut, tok,
                   svcOthers>>

\* queries.DeleteExpiredSessions(ctx), its error logged; with ctx cancelled
\* the query fails
DeleteExpired ==
    /\ Running
    /\ sweeper.at = "sweeping"
    /\ \E dbOk \in IF sweeper.done THEN {FALSE} ELSE BOOLEAN :
        /\ sessions' = IF dbOk THEN DeleteExpiredSessions(sessions, now)
                       ELSE sessions
        /\ sweeper' = IF dbOk
                      THEN [sweeper EXCEPT !.at = "select", !.runs = @ + 1]
                      ELSE [sweeper EXCEPT !.at = "select", !.logged = @ + 1]
        /\ last' = Quiet(IF dbOk THEN "Sweep" ELSE "SweepFailed")
    /\ UNCHANGED <<now, users, nextSid, oidcLogoutURL, loggedOut, tok,
                   svcOthers>>

\* case <-ctx.Done(): return
SweeperReturns ==
    /\ Running
    /\ sweeper.at = "select"
    /\ sweeper.done
    /\ sweeper' = [sweeper EXCEPT !.at = "returned"]
    /\ UNCHANGED <<authVars, tok, svcOthers>>

\* main calls cancel() on SIGINT or SIGTERM
CancelApp ==
    /\ sweeper.at # "none"
    /\ ~sweeper.done
    /\ sweeper' = [sweeper EXCEPT !.done = TRUE]
    /\ UNCHANGED <<authVars, tok, svcOthers>>

\* go func() { server.ListenAndServe() ... }(); signal.Notify(quit, ...);
\* main blocks on <-quit.  The sweeper was started before.
StartServer ==
    /\ shutdown.at = "none"
    /\ sweeper.at # "none"
    /\ shutdown' = [shutdown EXCEPT !.at = "waiting"]
    /\ UNCHANGED <<authVars, svcVars, call, mainOthers>>

\* ListenAndServe cannot bind the address and returns an error other than
\* ErrServerClosed: log.Fatalf
ListenFails ==
    /\ shutdown.at = "waiting"
    /\ shutdown' = [shutdown EXCEPT !.at = "fatal"]
    /\ UNCHANGED <<authVars, svcVars, call, mainOthers>>

\* <-quit delivers SIGINT or SIGTERM
Signal ==
    /\ shutdown.at = "waiting"
    /\ \E sig \in Signals :
        shutdown' = [shutdown EXCEPT !.at = "signalled", !.sig = sig]
    /\ UNCHANGED <<authVars, svcVars, call, mainOthers>>

\* log.Println("Shutting down server..."); cancel()
CancelOnSignal ==
    /\ shutdown.at = "signalled"
    /\ shutdown' = [shutdown EXCEPT !.at = "cancelled"]
    /\ sweeper' = [sweeper EXCEPT !.done = TRUE]
    /\ UNCHANGED <<authVars, tok, call, mainOthers>>

\* shutdownCtx with its timeout; server.Shutdown(shutdownCtx) is called
CallShutdown ==
    /\ shutdown.at = "cancelled"
    /\ shutdown' = [shutdown EXCEPT !.at = "shutting", !.called = TRUE,
                                    !.deadline = ShutdownDeadline]
    /\ UNCHANGED <<authVars, svcVars, call, mainOthers>>

\* server.Shutdown returns: nil once every connection is idle, the context's
\* error when the deadline passes first (log.Fatalf); otherwise main returns
ShutdownReturns ==
    /\ shutdown.at = "shutting"
    /\ \E drained \in BOOLEAN :
        shutdown' = [shutdown EXCEPT
                        !.at = IF drained THEN "returned" ELSE "fatal"]
    /\ UNCHANGED <<authVars, svcVars, call, mainOthers>>

(***************************************************************************)
(* The view-model validator on its own: one call of                        *)
(* validateViewModelAllBlocks on a page's template set and a sample value, *)
(* in the order of its statements.                                         *)
(***************************************************************************)
PagePath == "page.html"
FieldPipe(ident) == Pipe(<<Cmd(<<Field(ident)>>)>>)
DotPipe == Pipe(<<Cmd(<<Dot>>)>>)
Idents == {<<"Email">>, <<"User">>, <<"User", "Email">>}

\* {{.A}}
Actions == {Ref(ident) : ident \in Idents}
Bodies == {List(<<a>>) : a \in Actions}

\* {{if .A}}{{.B}}{{end}}, {{if .A}}{{.B}}{{else}}{{.C}}{{end}},
\* {{with .A}}{{.B}}{{end}}, {{range .A}}{{.B}}{{end}}
Controls ==
    {If(FieldPipe(c), b, e) :
        c \in {<<"Email">>}, b \in Bodies, e \in {NilNode} \cup Bodies}
    \cup {With(FieldPipe(<<"User">>), b, NilNode) : b \in Bodies}
    \cup {Range(FieldPipe(<<"User">>), b, NilNode) : b \in Bodies}

\* {{template "part"}}, {{template "part" .}}, {{template "part" .A}}
Calls ==
    {Template("part", pipe) :
        pipe \in {NilNode, DotPipe} \cup {FieldPipe(ident) : ident \in Idents}}

\* the template sets of a page that calls a template of its own
Pages ==
    {PagePath :> [Tree |-> List(<<n>>)]
        @@ "part" :> [Tree |-> List(<<Ref(<<"Email">>)>>)] :
            n \in Actions \cup Controls \cup Calls}

\* the template sets of a page made of one block:
\* {{define "sidebar"}}{{.A}}{{end}}
BlockNames == {"content", "nav", "head", "title", "sidebar"}
BlockPages ==
    {PagePath :> [Tree |-> List(<<>>)] @@ name :> [Tree |-> List(<<a>>)] :
        name \in BlockNames, a \in Actions}

TemplateSets == Pages \cup BlockPages

\* sample values
Inner == Struct(<<StructField("Email", String), Unexported("token", String)>>)
FieldTypes == {String, Slice(String), Inner, Ptr(Inner)}
Structs ==
    {Struct(<<StructField("User", t)>> \o rest) :
        t \in FieldTypes,
        rest \in {<<>>, <<StructField("Email", String)>>,
                  <<Unexported("email", String)>>}}
ElemTypes == {String, Inner, Ptr(Inner), NilValue}
Maps ==
    {Map(elems) : elems \in [{"User"} -> ElemTypes]
                            \cup [{"Email", "User"} -> ElemTypes]}
DataValues ==
    {NilValue, String, Slice(String)} \cup Structs
        \cup {Ptr(v) : v \in Structs} \cup Maps

Validation(at, tmpl, data, tField, sField, err) ==
    [at |-> at, tmpl |-> tmpl, data |-> data, tField |-> tField,
     sField |-> sField, err |-> err]
NotValidating ==
    Validation("none", NoTemplate, NilValue, newTemplateField("Root"),
               newTemplateField("Root"), NoError)

\* validateViewModelAllBlocks(data, tmpl, templatePath) is called
ValidateCalled ==
    /\ val.at = "none"
    /\ \E tmpl \in TemplateSets, data \in DataValues :
        val' = Validation("called", tmpl, data, newTemplateField("Root"),
                          newTemplateField("Root"), NoError)
    /\ UNCHANGED valOthers

\* the loop over blockNames
ExtractBlocks ==
    /\ val.at = "called"
    /\ val' = [val EXCEPT
                !.at = "blocks",
                !.tField = extractBlocks(val.tmpl,
                                         blockNames(val.tmpl, PagePath), 1,
                                         newTemplateField("Root"))]
    /\ UNCHANGED valOthers

\* rootStructField := extractFieldsFromData(data)
ExtractData ==
    /\ val.at = "blocks"
    /\ \E tree \in {extractFieldsFromData(val.data)} :
        val' = [val EXCEPT
                  !.at = IF tree = NilTypePanic THEN "panicked" ELSE "data",
                  !.sField = tree]
    /\ UNCHANGED valOthers

\* compareTemplateFields and the error built from its lists
CompareFields ==
    /\ val.at = "data"
    /\ val' = [val EXCEPT !.at = "returned",
                          !.err = validateFields(val.tField, val.sField)]
    /\ UNCHANGED valOthers

(***************************************************************************)
(* Functions of the platform called on their own: the role extractor and   *)
(* the configuration loader.                                               *)
(***************************************************************************)
Call(fn, args, result) == [fn |-> fn, args |-> args, result |-> result]
NoCall == Call("none", <<>>, <<>>)

\* GET /callback on its own, the request kept beside its answer
CallbackCalled ==
    \E stateCookie \in StateCookies, state \in QueryStates :
        \E fail \in Reached(StateMatches(stateCookie, state),
                             CallbackFailures) :
        \E sub \in Reached(StateMatches(stateCookie, state)
                                /\ StepDone("claims", fail), Subs),
           life \in Reached(StateMatches(stateCookie, state)
                                /\ StepDone("exchange", fail), TokenLives) :
            /\ CallbackOn(stateCookie, state, fail, sub, life)
            /\ call' = Call("Callback", <<stateCookie, state, fail, sub>>,
                            last'.status)
            /\ UNCHANGED <<svcVars, shutdown, mainOthers>>

\* a role name is the sequence of the pieces it is written from, so that
\* <<"default-roles-", "acme">> is the string default-roles-acme
Roles ==
    {<<"admin">>, <<"default-roles-", "acme">>, <<"default-roles">>,
     <<"offline_access">>, <<"offline_access", "2">>, <<"uma_authorization">>}
Clients == {"app", "api"}

\* strings.HasPrefix, for a prefix that is one piece
HasPrefix(str, prefix) == str # <<>> /\ str[1] = prefix

\* mutant: the prefix is compared as a whole role
isDefaultKeycloakRole_NoPrefix(role) ==
    role \in {<<"default-roles-">>, <<"offline_access">>,
              <<"uma_authorization">>}

isDefaultKeycloakRole(role) ==
    \/ HasPrefix(role, "default-roles-")
    \/ role \in {<<"offline_access">>, <<"uma_authorization">>}

\* the claims documents of an ID token: bytes that do not parse, or the
\* members realm_access.roles and resource_access.<client>.roles (a member
\* that is absent reads as no roles)
RealmRoleLists == {<<>>} \cup {<<r>> : r \in Roles}
                     \cup {<<r, q>> : r \in Roles, q \in Roles}
ClientRoleLists == {<<>>} \cup {<<r>> : r \in Roles}
ResourceAccess == UNION {[cs -> ClientRoleLists] : cs \in SUBSET Clients}
ClaimsDocuments ==
    {NotJSON} \cup [realm_access : RealmRoleLists,
                    resource_access : ResourceAccess]

KeycloakRoleExtractor(rawClaims, clientID) ==
    IF "syntax" \in DOMAIN rawClaims THEN [err |-> TRUE, roles |-> <<>>]
    ELSE LET allRoles ==
                 rawClaims.realm_access
                     \o IF clientID \in DOMAIN rawClaims.resource_access
                        THEN rawClaims.resource_access[clientID]
                        ELSE <<>>
         IN  [err |-> FALSE,
              roles |-> SelectSeq(allRoles,
                                  LAMBDA role : ~isDefaultKeycloakRole(role))]

\* s.roleExtractor(rawClaims, s.cfg.OIDCClientID)
ExtractRoles ==
    /\ call.fn = "none"
    /\ \E rawClaims \in ClaimsDocuments, clientID \in Clients :
        call' = Call("KeycloakRoleExtractor",
                     [rawClaims |-> rawClaims, clientID |-> clientID],
                     KeycloakRoleExtractor(rawClaims, clientID))
    /\ UNCHANGED <<authVars, svcVars, shutdown, mainOthers>>

\* the environment: os.Getenv gives "" for a variable that is not set
Key32 == "MDEyMzQ1Njc4OWFiY2RlZjAxMjM0NTY3ODlhYmNkZWY="
Key33 == "MDEyMzQ1Njc4OWFiY2RlZjAxMjM0NTY3ODlhYmNkZWYw"
Key5 == "c2hvcnQ="
NotBase64 == "not*base64"
Environments ==
    [SECRET_KEY : {"", NotBase64, Key5, Key32, Key33},
     APP_URL : {"", AppURL},
     DATABASE_URL : {"", "postgres://db"},
     OIDC_ISSUER_URL : {"", "https://idp"},
     OIDC_CLIENT_ID : {"", "app"},
     OIDC_CLIENT_SECRET : {"", "s3cret"},
     ENVIRONMENT : {"", "dev", "prod", "staging"},
     ADDR : {"", ":9090"},
     OIDC_LOGOUT_URL : OIDCLogoutURLs]

\* base64.StdEncoding.DecodeString on the keys above: the number of bytes
\* the text decodes to, or an error
DecodeString(text) ==
    CASE text = Key32 -> [err |-> FALSE, len |-> 32, of |-> text]
      [] text = Key33 -> [err |-> FALSE, len |-> 33, of |-> text]
      [] text = Key5 -> [err |-> FALSE, len |-> 5, of |-> text]
      [] OTHER -> [err |-> TRUE, len |-> 0, of |-> ""]

getEnv(env, key, fallback) == IF env[key] # "" THEN env[key] ELSE fallback

\* mutant: an empty value is returned like any other
requireEnv_AllowsEmpty(env, key) == [panic |-> FALSE, v |-> env[key]]

requireEnv(env, key) ==
    IF env[key] = "" THEN [panic |-> TRUE, v |-> ""]
    ELSE [panic |-> FALSE, v |-> env[key]]

Panicked == [panic |-> TRUE]

\* config.Load: the key is checked first, then the fields in their order
Load(env) ==
    LET secretKeyB64 == requireEnv(env, "SECRET_KEY")
        secretKey == DecodeString(secretKeyB64.v)
        required == {requireEnv(env, key) :
                        key \in {"APP_URL", "DATABASE_URL", "OIDC_ISSUER_URL",
                                 "OIDC_CLIENT_ID", "OIDC_CLIENT_SECRET"}}
    IN  IF secretKeyB64.panic \/ secretKey.err \/ secretKey.len # 32
        THEN Panicked
        ELSE IF \E r \in required : r.panic THEN Panicked
        ELSE [panic |-> FALSE,
              Environment |-> getEnv(env, "ENVIRONMENT", "prod"),
              AppURL |-> requireEnv(env, "APP_URL").v,
              Addr |-> getEnv(env, "ADDR", ":8080"),
              DatabaseURL |-> requireEnv(env, "DATABASE_URL").v,
              OIDCIssuerURL |-> requireEnv(env, "OIDC_ISSUER_URL").v,
              OIDCClientID |-> requireEnv(env, "OIDC_CLIENT_ID").v,
              OIDCClientSecret |-> requireEnv(env, "OIDC_CLIENT_SECRET").v,
              OIDCLogoutURL |-> getEnv(env, "OIDC_LOGOUT_URL", ""),
              SecretKey |-> secretKey]

\* cfg := config.Load() in main
LoadConfig ==
    /\ call.fn = "none"
    /\ \E env \in Environments :
        call' = Call("Load", env, Load(env))
    /\ UNCHANGED <<authVars, svcVars, shutdown, mainOthers>>

(***************************************************************************)
(* Specifications.                                                         *)
(***************************************************************************)
AuthIdle ==
    /\ now = 0
    /\ users = [u \in {} |-> 0]
    /\ sessions = [s \in {} |-> 0]
    /\ nextSid = 0
    /\ oidcLogoutURL = ""
    /\ loggedOut = {}
    /\ last = Quiet("Init")

CmpIdle ==
    /\ templateField = newTemplateField("Root")
    /\ structField = newTemplateField("Root")
    /\ compared = NotCompared

ConcIdle ==
    /\ mu = Unlocked
    /\ reqs = [r \in Goroutines |-> IdleRequest]

MigIdle ==
    /\ advisoryLock = NoSessionHolds
    /\ schemaVersion = 0
    /\ instances = [i \in Instances |-> NotStarted]

SseIdle ==
    /\ ctxDone = FALSE
    /\ sseHandler = SSEHandler("start", 0, <<>>, 0, 0, "")
    /\ producer = Producer("none", <<>>, FALSE, FALSE)

SvcIdle ==
    /\ tok = NothingStored
    /\ sweeper = NotSweeping

ValIdle == val = NotValidating

MainIdle ==
    /\ call = NoCall
    /\ shutdown = NotServing

ExtIdle == ConcIdle /\ MigIdle /\ SseIdle /\ SvcIdle /\ ValIdle /\ MainIdle

TplIdle ==
    /\ cfg = [Environment |-> "prod"]
    /\ fsys = [f \in {} |-> ""]
    /\ tm = NoManager
    /\ handler = NoHandler
    /\ pc = "init"
    /\ render = Idle("none")

Init ==
    /\ now = 0
    /\ users = [u \in {} |-> 0]
    /\ sessions = [s \in {} |-> 0]
    /\ nextSid = 0
    /\ oidcLogoutURL \in OIDCLogoutURLs
    /\ loggedOut = {}
    /\ last = Quiet("Init")
    /\ CmpIdle
    /\ TplIdle
    /\ ExtIdle

Next ==
    \/ RequestPublic
    \/ RequestProtected
    \/ Login
    \/ Callback
    \/ Logout
    \/ Sweep
    \/ Tick

Spec == Init /\ [][Next]_vars

\* the field-tree comparison on its own
InitCmp == AuthIdle /\ CmpIdle /\ TplIdle /\ ExtIdle

NextCmp ==
    \/ AddTemplateField
    \/ AddStructField
    \/ Compare

SpecCmp == InitCmp /\ [][NextCmp]_vars

\* the template manager from startup on, with the files changing under it
InitTpl ==
    /\ AuthIdle
    /\ CmpIdle
    /\ cfg \in Configs
    /\ fsys \in FileSystems
    /\ tm = NoManager
    /\ handler = NoHandler
    /\ pc = "init"
    /\ render = Idle("main")
    /\ ExtIdle

NextTpl ==
    \/ InitTemplates
    \/ WriteFile
    \/ RemoveFile
    \/ ExecutorRoute
    \/ TemplateRoute
    \/ BuildHandler
    \/ Serve
    \/ RequestExecutor
    \/ RequestRenderer
    \/ RequestTemplate
    \/ Home

SpecTpl == InitTpl /\ [][NextTpl]_vars

\* the template manager under concurrent requests to an ExecutorRoute
\* handler; the files stay as they were at startup
NextConc ==
    \/ InitTemplates
    \/ ExecutorRoute
    \/ Serve
    \/ \E r \in Goroutines : Accept(r)
    \/ \E r \in Goroutines : LockTemplates(r)
    \/ \E r \in Goroutines : LoadIncludes(r)
    \/ \E r \in Goroutines : LoadPages(r)
    \/ \E r \in Goroutines : LookupTemplate(r)
    \/ \E r \in Goroutines : ExecuteLayout(r)
    \/ \E r \in Goroutines : Return(r)

SpecConc == InitTpl /\ [][NextConc]_vars

\* the session store: any token and role list written and read back
InitTok == AuthIdle /\ CmpIdle /\ TplIdle /\ ExtIdle

NextTok ==
    \/ StoreSession
    \/ ReadSession
    \/ RefreshStored
    \/ LoseBlob

SpecTok == InitTok /\ [][NextTok]_vars

\* the sweeper beside logins and the clock
NextSweep ==
    \/ Callback
    \/ Tick
    \/ StartSweeper
    \/ SweepTickerFires
    \/ SweepTakeTick
    \/ DeleteExpired
    \/ SweeperReturns
    \/ CancelApp

SpecSweep == InitTok /\ [][NextSweep]_vars

\* the scheduler runs a goroutine that can take a step
FairSweep == WF_vars(SweepTakeTick) /\ WF_vars(DeleteExpired)

SpecSweepLive == SpecSweep /\ FairSweep

\* callbacks with their requests, beside logouts
NextCallback ==
    \/ CallbackCalled
    \/ Logout

SpecCallback == InitTok /\ [][NextCallback]_vars

\* the requests and the clock are followed while main waits for the signal
ServeCallback == shutdown.at = "waiting" /\ Callback
ServeTick == shutdown.at = "waiting" /\ Tick

\* main serving, with the sweeper beside logins and the clock
NextMain ==
    \/ ServeCallback
    \/ ServeTick
    \/ StartSweeper
    \/ SweepTickerFires
    \/ SweepTakeTick
    \/ DeleteExpired
    \/ SweeperReturns
    \/ StartServer
    \/ ListenFails
    \/ Signal
    \/ CancelOnSignal
    \/ CallShutdown
    \/ ShutdownReturns

SpecMain == InitTok /\ [][NextMain]_vars

\* the scheduler runs main and a goroutine that can take a step
FairMain ==
    /\ WF_vars(SweepTakeTick) /\ WF_vars(DeleteExpired)
    /\ WF_vars(SweeperReturns)
    /\ WF_vars(CancelOnSignal) /\ WF_vars(CallShutdown)
    /\ WF_vars(ShutdownReturns)

SpecMainLive == SpecMain /\ FairMain

\* the validator on every template set and sample value
NextVal ==
    \/ ValidateCalled
    \/ ExtractBlocks
    \/ ExtractData
    \/ CompareFields

SpecVal == InitTok /\ [][NextVal]_vars

\* the role extractor on every claims document and client id
NextRoles == ExtractRoles

SpecRoles == InitTok /\ [][NextRoles]_vars

\* the configuration loader on every environment
NextLoad == LoadConfig

SpecLoad == InitTok /\ [][NextLoad]_vars

\* instances starting against one database, which may be migrated already
InitMig ==
    /\ AuthIdle
    /\ CmpIdle
    /\ TplIdle
    /\ ConcIdle
    /\ SseIdle
    /\ SvcIdle
    /\ ValIdle
    /\ MainIdle
    /\ advisoryLock = NoSessionHolds
    /\ schemaVersion \in 0..LatestVersion
    /\ instances = [i \in Instances |-> NotStarted]

NextMig ==
    \/ \E i \in Instances : Connect(i)
    \/ \E i \in Instances : AcquireLock(i)
    \/ \E i \in Instances : NewWithSourceInstance(i)
    \/ \E i \in Instances : StartUp(i)
    \/ \E i \in Instances : FinishUp(i)
    \/ \E i \in Instances : Unlock(i)
    \/ \E i \in Instances : CloseConn(i)

SpecMig == InitMig /\ [][NextMig]_vars

\* one SSE connection from the moment the server calls the handler
InitSse ==
    /\ AuthIdle /\ CmpIdle /\ TplIdle
    /\ ConcIdle /\ MigIdle /\ SseIdle /\ SvcIdle /\ ValIdle /\ MainIdle

NextSse ==
    \/ StartProducer
    \/ Receive
    \/ HandlerDone
    \/ Write
    \/ Flush
    \/ TickerFires
    \/ TakeTick
    \/ ProducerDone
    \/ Cancel

SpecSse == InitSse /\ [][NextSse]_vars

\* the goroutines are scheduled, and a select with several ready cases
\* picks among them at random, so a case that is ready again and again is
\* taken in the end
FairSse ==
    /\ WF_vars(StartProducer)
    /\ WF_vars(Write)
    /\ WF_vars(Flush)
    /\ SF_vars(HandlerDone)
    /\ SF_vars(ProducerDone)

SpecSseLive == SpecSse /\ FairSse

\* one SSE connection served by ConfigureSSE with the handlers.SSE producer
NextHandlersSse ==
    \/ StartProducer
    \/ Receive
    \/ HandlerDone
    \/ Write
    \/ Flush
    \/ LoopTickerFires
    \/ TakeTick
    \/ Cancel

SpecHandlersSse == InitSse /\ [][NextHandlersSse]_vars

FairHandlersSse ==
    /\ WF_vars(StartProducer)
    /\ WF_vars(Write)
    /\ WF_vars(Flush)
    /\ WF_vars(TakeTick)
    /\ SF_vars(Receive)
    /\ SF_vars(HandlerDone)

SpecHandlersSseLive == SpecHandlersSse /\ FairHandlersSse



(***************************************************************************)
(* Properties of the auth flow (Spec).                                     *)
(***************************************************************************)
LoginRedirect == Location("/login", "", "")

\* the cookie of the last request names a stored session whose expiry is not
\* in the past
NamesLiveSession ==
    /\ last.cookie # NoCookie
    /\ last.cookie \in DOMAIN sessions
    /\ ~(sessions[last.cookie].expires_at < now)

\* C1: a request to a route behind RequireAuth reaches the wrapped handler
\* only if its session_id cookie names a stored session whose expiry is not
\* in the past and RequireAuth's RefreshToken returned no error; in every
\* other case the answer is a 307 to /login and the handler does not run.
C1_RequireAuthGate ==
    last.op = "Protected" =>
        /\ last.invoked => (NamesLiveSession /\ ~last.req.refresh.err)
        /\ ~(NamesLiveSession /\ ~last.req.refresh.err) =>
               /\ last.status = 307
               /\ last.location = LoginRedirect
               /\ ~last.invoked

\* a protected request whose session was live and whose refresh went through
C1_Witness ==
    /\ last.op = "Protected"
    /\ last.invoked
    /\ last.req.refresh.calls = 1

\* C2: a session row appears only in a Callback that ends in the login
\* redirect and sets that id's cookie; a row disappears only in a Logout
\* that carried its id or in a sweep that found its expires_at in the past.
C2_SessionLifecycle ==
    [][\A sid \in 1..(MaxSessions + 1) :
        /\ (sid \notin DOMAIN sessions /\ sid \in DOMAIN sessions') =>
              /\ last'.op = "Callback"
              /\ last'.status = 307
              /\ SetCookie("session_id", "", sid, 86400) \in last'.setCookies
        /\ (sid \in DOMAIN sessions /\ sid \notin DOMAIN sessions') =>
              \/ last'.op = "Logout" /\ last'.cookie = sid
              \/ last'.op = "Sweep" /\ sessions[sid].expires_at < now]_vars

\* a Logout removed one session and left another
C2_Witness ==
    /\ last.op = "Logout"
    /\ last.cookie \in IssuedIds
    /\ last.cookie \notin DOMAIN sessions
    /\ DOMAIN sessions # {}

C4_ExpiryAtLookup ==
    (last.op \in {"Public", "Protected"}
        /\ (last.opt.ctx # NoSession \/ last.req.ctx # NoSession
            \/ (last.op = "Protected" /\ last.invoked))) =>
        /\ NamesLiveSession
        /\ last.opt.ctx # NoSession =>
              last.opt.ctx.Expires = sessions[last.cookie].expires_at

\* an expired session the sweep has not deleted yet is turned away
C4_Witness ==
    /\ last.op = "Protected"
    /\ last.cookie \in DOMAIN sessions
    /\ sessions[last.cookie].expires_at < now
    /\ ~last.invoked
    /\ last.opt.ctx = NoSession


\* what the RefreshToken call of one middleware (m: its trace in the step's
\* record) did to the session it was given and to the row of cookie c
RefreshCallOk(m, c) ==
    LET rf == m.refresh
        stale == ~(rf.tokenIn.Expiry > now)
    IN  rf.called =>
          \* the provider is asked exactly when the expiry is not after now
          /\ (rf.calls = 1) <=> stale
          \* a token still valid: the session in memory keeps it
          /\ ~stale => (m.ctx.Token = rf.tokenIn /\ ~rf.err)
          \* a refresh that went through: a new token, in memory and stored
          /\ (stale /\ ~rf.err) =>
                /\ m.ctx.Token # rf.tokenIn
                /\ decryptToken(sessions'[c].token_data).token = m.ctx.Token

\* C5: on a request with a valid session RefreshToken asks the provider if
\* and only if the token's expiry is not after the clock; the row's
\* token_data is rewritten only then, and nothing else of the store ever is;
\* with the token still valid there is no provider call, no write and the
\* same session in memory; after a refresh that succeeded the handler sees
\* the new token and the row of that session id holds it.
C5_RefreshOnUse ==
    [][last'.op \in {"Public", "Protected"} =>
        LET c == last'.cookie
            ms == {m \in {last'.opt, last'.req} : m.refresh.called}
        IN  /\ RefreshCallOk(last'.opt, c)
            /\ RefreshCallOk(last'.req, c)
            /\ (\A m \in ms : m.refresh.tokenIn.Expiry > now) => sessions' = sessions
            /\ sessions' # sessions =>
                  /\ c \in DOMAIN sessions
                  /\ sessions' = [sessions EXCEPT ![c].token_data =
                                                     sessions'[c].token_data]
            /\ (last'.invoked /\ \E m \in ms : m.refresh.calls = 1 /\ ~m.refresh.err) =>
                  /\ last'.ctx.Token # decryptToken(sessions[c].token_data).token
                  /\ decryptToken(sessions'[c].token_data).token = last'.ctx.Token]_vars

\* OptionalAuth refreshed the token and RequireAuth, called next, found it valid
C5_Witness ==
    /\ last.op = "Protected"
    /\ last.opt.refresh.calls = 1
    /\ ~last.opt.refresh.err
    /\ last.req.refresh.called
    /\ last.req.refresh.calls = 0
    /\ last.invoked

ComparedLevels == NodePaths(templateField) \cap NodePaths(structField)

ChildNames(tf, p) == {n \in FieldNames : Append(p, n) \in NodePaths(tf)}

Parent(q) == SubSeq(q, 1, Len(q) - 1)

\* the children one tree has at a compared level and the other has not
AbsentFrom(other, tf) ==
    {q \in NodePaths(tf) \ NodePaths(other) : Parent(q) \in ComparedLevels}

\* the entry that reports child q: its parent's name, "->", its own name
Reported(q) ==
    (IF Len(q) = 1 THEN "Root" ELSE q[Len(q) - 1]) \o "->" \o q[Len(q)]

OneEntryEach(list, absent) ==
    /\ BagToSet(list) = {Reported(q) : q \in absent}
    /\ \A e \in BagToSet(list) :
          CopiesIn(e, list) = Cardinality({q \in absent : Reported(q) = e})

\* C7: compareTemplateFields returns two empty lists if and only if the two
\* trees have the same child names at the root and at every pair of
\* same-named children; each name the template tree has and the data tree
\* lacks at a compared level gives exactly one missing entry, each name the
\* data tree has and the template tree lacks exactly one extra entry; and
\* validation fails exactly when one of the lists is not empty.
C7_CompareFieldTrees ==
    compared.done =>
        /\ (compared.missing = NoEntries /\ compared.extra = NoEntries)
             <=> \A p \in ComparedLevels :
                    ChildNames(templateField, p) = ChildNames(structField, p)
        /\ OneEntryEach(compared.missing, AbsentFrom(structField, templateField))
        /\ OneEntryEach(compared.extra, AbsentFrom(templateField, structField))
        /\ compared.err.failed
             <=> (compared.missing # NoEntries \/ compared.extra # NoEntries)

\* a comparison that found a field missing below the root and another extra
C7_Witness ==
    /\ compared.done
    /\ \E q \in AbsentFrom(structField, templateField) : Len(q) = 2
    /\ AbsentFrom(templateField, structField) # {}
    /\ compared.err.failed


(***************************************************************************)
(* Properties of the context helpers (Spec).                               *)
(***************************************************************************)
\* what the session key can hold: nothing, a value of another type, and the
\* sessions of the store and of the last request
ContextValues ==
    {NoSession, OtherValue, last.ctx, last.opt.ctx, last.req.ctx}
        \cup {GetSession(sessions, users, sid) : sid \in DOMAIN sessions}

\* C15: GetSessionFromContext returns the session with a nil error if and
\* only if the request context holds a *SessionData under the session key,
\* and an error otherwise; GetOptionalSession returns that same session in
\* exactly those cases and nil otherwise; inside a handler reached through
\* RequireAuth, GetSessionFromContext never returns an error, so Dashboard
\* never answers 500 for a missing session.
C15_ContextHelpers ==
    /\ \A v \in ContextValues :
          LET got == GetSessionFromContext(v)
          IN  IF v \in {NoSession, OtherValue}
              THEN got.err /\ GetOptionalSession(v) = NoSession
              ELSE ~got.err /\ got.session = v /\ GetOptionalSession(v) = v
    /\ (last.op = "Protected" /\ last.invoked) =>
          /\ last.ctx \notin {NoSession, OtherValue}
          /\ last.status = 200
    /\ \A cookie \in Cookies, r \in RefreshOutcomes :
          LET q == RequireAuth(sessions, users, now, cookie, NoSession,
                               r.prov, r.dbOk)
          IN  q.next => Dashboard(q.ctx) = Status(200)

\* Dashboard ran behind RequireAuth and found the session OptionalAuth had
\* put in the context
C15_Witness ==
    /\ last.op = "Protected"
    /\ last.invoked
    /\ last.status = 200
    /\ last.ctx = last.opt.ctx
    /\ ~GetSessionFromContext(last.ctx).err

(***************************************************************************)
(* Properties of the template manager (SpecTpl).                           *)
(***************************************************************************)
\* the fields the page and its known blocks reference are the fields the
\* model has: there is nothing missing and nothing extra to report
PassesValidation(exampleModel, tmpl, templatePath) ==
    NodePaths(extractBlocks(tmpl, blockNames(tmpl, templatePath), 1,
                            newTemplateField("Root")))
        = NodePaths(extractFieldsFromData(exampleModel))

RouteConstructors == {"ExecutorRoute", "TemplateRoute", "BuildHandler"}
HandlerCalls == {"ExecuteToWriter", "WriteTo", "TemplateRouteFn"}

C9_RenderedIsValidated ==
    (render.op = "ExecuteToWriter" /\ render.tmpl # NoTemplate) =>
        PassesValidation(handler.exampleModel, render.tmpl,
                         handler.templateName)

\* the registry holds the pages as the files are, each with the includes
ReflectsFiles(m, fs) ==
    /\ \A rel \in Range2Set(PageNames) :
          /\ rel \in DOMAIN m.storedTemplates
                <=> Join(RootDir, rel) \in DOMAIN fs
          /\ rel \in DOMAIN m.storedTemplates =>
                LET set == m.storedTemplates[rel]
                    text == Parse(rel, fs[Join(RootDir, rel)])
                IN  /\ ~text.err
                    /\ set[rel].Tree = text.trees[rel]
                    /\ \A inc \in Range2Set(IncludeNames) :
                          IF Join(IncludeDir, inc) \in DOMAIN fs
                          THEN /\ inc \in DOMAIN set
                               /\ set[inc].Tree =
                                    Parse(inc, fs[Join(IncludeDir, inc)]).trees[inc]
                          ELSE inc \notin DOMAIN set
    /\ m.baseExists <=> Join(IncludeDir, defaultBaseTemplate) \in DOMAIN fs

\* C10: with Reload on, every ExecuteToWriter and every GetTemplate loads
\* the templates again before the lookup, so the registry and the template
\* used are those of the files as they are at that call; with Reload off
\* the templates are loaded at construction and the manager never changes
\* afterwards, whatever happens to the files; and Reload is on exactly when
\* the environment is "dev".
C10_HotReload ==
    [][/\ tm' # NoManager => (tm'.options.Reload <=> cfg'.Environment = "dev")
       /\ (tm = NoManager /\ tm' # NoManager) =>
             (render'.reloaded /\ ReflectsFiles(tm', fsys'))
       /\ (tm # NoManager /\ tm.options.Reload
           /\ render'.op \in {"ExecuteToWriter", "GetTemplate"}) =>
             /\ render'.reloaded
             /\ render'.err # "reload" => ReflectsFiles(tm', fsys')
             /\ render'.err = "notfound" <=>
                   (render'.err # "reload"
                    /\ Join(RootDir, render'.templatePath) \notin DOMAIN fsys')
             /\ render'.tmpl # NoTemplate =>
                   render'.tmpl = tm'.storedTemplates[render'.templatePath]
       /\ (tm # NoManager /\ ~tm.options.Reload) =>
             (tm' = tm /\ ~render'.reloaded)
      ]_vars

\* an ExecuteToWriter with Reload on that rendered a page other than the one
\* its route was built with
C10_Witness ==
    /\ render.op = "ExecuteToWriter"
    /\ tm.options.Reload
    /\ render.reloaded
    /\ render.tmpl # NoTemplate
    /\ render.tmpl # handler.tmpl


\* the names a file of the model can have below a directory
FileNames == Range2Set(IncludeNames) \cup Range2Set(PageNames)

\* the templates the text of a file defines
Defined(name, fs, file) == Parse(name, fs[file]).trees

\* the template set of one entry: the page under its key and, from every
\* file of IncludeDir, every template the file defines, as the file defines
\* it unless the page defines that template itself
HoldsPageAndIncludes(set, rel, fs) ==
    LET page == Defined(rel, fs, Join(RootDir, rel))
    IN  /\ rel \in DOMAIN set
        /\ set[rel].Tree = page[rel]
        /\ \A inc \in FileNames :
              Join(IncludeDir, inc) \in DOMAIN fs =>
                 \A name \in DOMAIN Defined(inc, fs, Join(IncludeDir, inc)) :
                    /\ name \in DOMAIN set
                    /\ (name \notin DOMAIN page \/ IsEmptyTree(page[name])) =>
                          set[name].Tree =
                             Defined(inc, fs, Join(IncludeDir, inc))[name]

LoadOps == {"initTemplates", "ExecuteToWriter", "WriteTo", "GetTemplate",
            "TemplateRoute"}
LookupOps == {"ExecutorRoute", "BuildHandler", "ExecuteToWriter", "WriteTo",
              "GetTemplate", "TemplateRoute"}

\* C12: after every successful loadTemplates the registry holds exactly one
\* entry for each file found below RootDir, keyed by the path of the file
\* relative to RootDir, and the template set of each entry also contains
\* every template parsed from the files of IncludeDir; a lookup of any other
\* key fails with the "couldn't find template" error.
C12_RegistryKeys ==
    /\ (render.op \in LoadOps /\ render.reloaded
        /\ render.err \notin {"load", "reload"}) =>
          /\ DOMAIN tm.storedTemplates
                = {rel \in FileNames : Join(RootDir, rel) \in DOMAIN fsys}
          /\ \A rel \in DOMAIN tm.storedTemplates :
                HoldsPageAndIncludes(tm.storedTemplates[rel], rel, fsys)
    /\ (render.op \in LookupOps /\ render.err \notin {"load", "reload"}) =>
          (render.err = "notfound"
             <=> render.templatePath \notin DOMAIN tm.storedTemplates)

\* a load that registered a page in a subdirectory and a page that defines
\* the block of the base layout itself
C12_Witness ==
    /\ render.op \in LoadOps /\ render.reloaded /\ render.err = ""
    /\ DOMAIN tm.storedTemplates = {"index.html", "u/dashboard.html"}
    /\ fsys[Join(RootDir, "index.html")] = TextContent
    /\ "base.html" \in DOMAIN tm.storedTemplates["u/dashboard.html"]


(***************************************************************************)
(* Properties of concurrent requests (SpecConc).                           *)
(***************************************************************************)
\* the base template is among the files of IncludeDir, at startup and at
\* every load since
BaseAmongIncludes == Join(IncludeDir, tm.options.BaseTemplate) \in DOMAIN fsys

\* C11: ExecuteToWriter executes the base layout template (BaseTemplate,
\* "base.html" when the option is empty) if and only if the template set of
\* the page defines "content" and the base template was found among the
\* includes at the last load; in every other case it executes the page
\* template under its registry path; an unknown path or a failed execution
\* is returned as an error.
C11_BaseLayout ==
    \A r \in Goroutines :
        reqs[r].pc = "done" =>
            /\ reqs[r].tmpl # NoTemplate =>
                  /\ reqs[r].err \in {"", "execute"}
                  /\ tm.options.BaseTemplate = defaultBaseTemplate
                  /\ reqs[r].execName =
                        IF "content" \in DOMAIN reqs[r].tmpl
                           /\ BaseAmongIncludes
                        THEN tm.options.BaseTemplate
                        ELSE handler.templateName
                  /\ ~HasTree(Lookup(reqs[r].tmpl, reqs[r].execName)) =>
                        reqs[r].err = "execute"
            /\ reqs[r].tmpl = NoTemplate =>
                  reqs[r].err \in {"reload", "notfound"}


(***************************************************************************)
(* Properties of the startup migrations (SpecMig).                         *)
(***************************************************************************)
\* C13: when several instances call Migrate against one database, at most
\* one instance at a time is between acquiring advisory lock 1 and
\* releasing it, so the m.Up of one instance never overlaps the m.Up of
\* another.
C13_MigrationsExclude ==
    /\ Cardinality({i \in Instances : instances[i].held}) <= 1
    /\ Cardinality({i \in Instances : instances[i].pc = "migrating"}) <= 1
    /\ \A i \in Instances :
          /\ instances[i].pc \in {"locked", "ready", "migrating", "returning"}
                => instances[i].held
          /\ instances[i].held => advisoryLock = i

\* one instance runs its migrations while another waits for the lock
C13_Witness ==
    \E i, j \in Instances :
        /\ i # j
        /\ instances[i].pc = "migrating"
        /\ instances[j].pc = "connected"
        /\ ~pg_advisory_lock(advisoryLock, j)


(***************************************************************************)
(* Properties of the SSE stream (SpecSse, SpecSseLive).                    *)
(***************************************************************************)
\* C14: the SSE handler serves one long-lived stream per connection: it
\* starts exactly one producer for the request, keeps running while the
\* request context is live and the writes succeed, and returns when the
\* request context is done or a write to the response fails, and in no
\* other case.
C14_OneStream ==
    /\ [](/\ sseHandler.started = IF sseHandler.pc = "start" THEN 0 ELSE 1
          /\ (producer.pc = "none") <=> (sseHandler.started = 0)
          /\ sseHandler.pc = "returned" =>
                \/ sseHandler.err = "done" /\ ctxDone
                \/ sseHandler.err = "write"
          /\ sseHandler.err = "write" => sseHandler.pc = "returned")
    /\ (ctxDone ~> sseHandler.pc = "returned")

\* the stream outlived a message: the handler wrote and flushed a frame and
\* then returned because the context was cancelled
C14_Witness ==
    /\ sseHandler.pc = "returned"
    /\ sseHandler.err = "done"
    /\ sseHandler.flushed >= 1
    /\ sseHandler.started = 1


(***************************************************************************)
(* C16: the token blob round-trips through storage.  GetSession on a       *)
(* session id SetSession stored returns the AccessToken, TokenType,        *)
(* RefreshToken, token Expiry, roles, ID token and session expiry that     *)
(* were stored (the token being the refreshed one once RefreshToken has    *)
(* rewritten the row); every token_data the service wrote is encrypt over  *)
(* the serialized token and roles under the configured key; and GetSession *)
(* reports the session absent when the blob does not decrypt or parse.     *)
(***************************************************************************)
SameStored(got, given) ==
    /\ got # NoSession
    /\ got.Token.AccessToken = given.Token.AccessToken
    /\ got.Token.TokenType = given.Token.TokenType
    /\ got.Token.RefreshToken = given.Token.RefreshToken
    /\ got.Token.Expiry = given.Token.Expiry
    /\ got.Roles = given.Roles
    /\ got.IDToken = given.IDToken
    /\ got.Expires = given.Expires

SweptExactly ==
    /\ DOMAIN sessions' =
           {s \in DOMAIN sessions : ~(sessions[s].expires_at < now)}
    /\ \A s \in DOMAIN sessions' : sessions'[s] = sessions[s]
    /\ users' = users

SweepStep ==
    /\ sweeper'.runs = sweeper.runs + 1 => SweptExactly
    /\ sweeper'.logged = sweeper.logged + 1
        => /\ sessions' = sessions
           /\ users' = users
           /\ last'.op = "SweepFailed"
           /\ sweeper'.at = "select"

SweepCalls ==
    sweeper.runs + sweeper.logged + (IF sweeper.at = "sweeping" THEN 1 ELSE 0)
        + (IF sweeper.tick THEN 1 ELSE 0)

OncePerTick ==
    /\ SweepCalls = sweeper.fired
    /\ sweeper.at = "returned" => sweeper.done

C17_ExpirySweep ==
    /\ [][SweepStep]_vars
    /\ []OncePerTick
    /\ \A n \in 0..MaxSweeps :
        (sweeper.tick /\ sweeper.runs + sweeper.logged = n)
            ~> (sweeper.runs + sweeper.logged > n \/ sweeper.done)

\* a sweep that followed a failed one has deleted one of two sessions
C17_Witness ==
    /\ last.op = "Sweep"
    /\ sweeper.logged > 0
    /\ sweeper.runs > 0
    /\ Cardinality(DOMAIN sessions) = 1
    /\ nextSid = 2
    /\ loggedOut = {}

(***************************************************************************)
(* Properties of the view-model validator (SpecVal).                       *)
(***************************************************************************)
\* the field references of a pipeline, below the field the enclosing
\* template was given
PipeRefs(pipe, parentField) ==
    IF pipe = NilNode THEN {}
    ELSE LET args == PipeArgs(pipe.Cmds, 1)
         IN  {parentField \o args[i].Ident :
                 i \in {j \in 1..Len(args) : args[j].kind = "Field"}}

\* every field reference of a node: in its pipeline, in its bodies and, for
\* a template call, in the template called, which is given its argument
RECURSIVE References(_, _, _)
References(root, n, parentField) ==
    CASE n.kind = "Action" -> PipeRefs(n.Pipe, parentField)
      [] n.kind = "List" ->
            UNION {References(root, n.Nodes[i], parentField) :
                      i \in 1..Len(n.Nodes)}
      [] n.kind \in {"If", "With", "Range"} ->
            PipeRefs(n.Pipe, parentField)
                \cup References(root, n.List, parentField)
                \cup References(root, n.ElseList, parentField)
      [] n.kind = "Template" ->
            LET called == Lookup(root, n.Name)
                given == IF n.Pipe = NilNode THEN {parentField}
                         ELSE PipeRefs(n.Pipe, parentField)
                                  \cup {parentField : i \in
                                          {j \in 1..Len(PipeArgs(n.Pipe.Cmds, 1)) :
                                              PipeArgs(n.Pipe.Cmds, 1)[j].kind
                                                  = "Dot"}}
            IN  PipeRefs(n.Pipe, parentField)
                    \cup IF HasTree(called)
                         THEN UNION {References(root, called.Tree, g) :
                                        g \in given}
                         ELSE {}
      [] OTHER -> {}

\* C18: the field tree built from a template contains every field path the
\* template references: in an action, in the condition or body of if/else,
\* in the pipeline or body of with and range, as the argument of a template
\* call, and inside the template called.
C18_EveryReference ==
    val.at # "none" /\ val.at # "called" =>
        \A ref \in References(val.tmpl, val.tmpl[PagePath].Tree, <<>>) :
            ref \in NodePaths(val.tField)

\* the templates the page's own tree calls
CalledByPage(set) ==
    LET nodes == set[PagePath].Tree.Nodes
    IN  {nodes[i].Name : i \in {j \in 1..Len(nodes) : nodes[j].kind = "Template"}}

\* the blocks a page defines and does not itself call
BlocksOf(set) == DOMAIN set \ ({PagePath} \cup CalledByPage(set))

\* the entry compareTemplateFields makes for a path: parent->name
EntryKey(path) ==
    (IF Len(path) = 1 THEN "Root" ELSE path[Len(path) - 1])
        \o "->" \o path[Len(path)]

\* C19: validation takes into account the fields used in any block the page
\* defines, whatever the block's name: a field referenced only inside a
\* block is in the template's field tree, a model lacking it is reported as
\* missing it, and a model having it is not reported as having it extra.
C19_AnyBlock ==
    val.at = "returned" =>
        \A name \in BlocksOf(val.tmpl) :
            \A ref \in References(val.tmpl, val.tmpl[name].Tree, <<>>) :
                /\ ref \in NodePaths(val.tField)
                /\ ref \notin NodePaths(val.sField) =>
                      /\ val.err.failed
                      /\ \E k \in 1..Len(ref) :
                            BagIn(EntryKey(SubSeq(ref, 1, k)), val.err.missing)
                /\ ref \in NodePaths(val.sField) =>
                      ~BagIn(EntryKey(ref), val.err.extra)

\* the paths of the tree a struct type is said to give: one child per
\* exported field, and below it the same for a field whose type is a struct
RECURSIVE StructPaths(_)
StructPaths(typ) ==
    UNION {LET f == typ.Fields[i]
           IN  IF f.PkgPath # "" THEN {}
               ELSE {<<f.Name>>}
                      \cup IF f.Type.Kind = "struct"
                           THEN {<<f.Name>> \o p : p \in StructPaths(f.Type)}
                           ELSE {} :
           i \in 1..Len(typ.Fields)}

IsStruct(v) == v.Kind = "struct" \/ (v.Kind = "ptr" /\ v.Elem.Kind = "struct")
StructOf(v) == IF v.Kind = "ptr" THEN v.Elem ELSE v

\* the paths of the tree a sample value is said to give, the root's included
ExpectedPaths(v) ==
    {<<>>} \cup
    IF IsStruct(v) THEN StructPaths(StructOf(v))
    ELSE IF v.Kind = "map"
    THEN UNION {{<<k>>} \cup
                  IF IsStruct(v.Elems[k])
                  THEN {<<k>> \o p : p \in StructPaths(StructOf(v.Elems[k]))}
                  ELSE {} :
                k \in DOMAIN v.Elems}
    ELSE {}

\* C20: the field tree built from a sample data value is empty for nil; for
\* a struct or pointer to struct has one child per exported field, with
\* children added recursively for fields whose type is a struct and none
\* for unexported fields; for a map has one child per key, with the
\* exported fields of a struct-valued element as grandchildren; and is empty
\* for every other kind of value.
C20_DataTree ==
    val.at \in {"data", "panicked", "returned"} =>
        /\ val.sField.Name = "Root"
        /\ NodePaths(val.sField) = ExpectedPaths(val.data)

(***************************************************************************)
(* Properties of the platform's functions.                                 *)
(***************************************************************************)
\* seq is sub with the entries dropped that drop holds of, in sub's order
KeepsAllBut(seq, sub, drop(_)) ==
    /\ Len(sub) = Cardinality({i \in 1..Len(seq) : ~drop(seq[i])})
    /\ \E at \in [1..Len(sub) -> 1..Len(seq)] :
        /\ \A i \in 1..Len(sub) : sub[i] = seq[at[i]] /\ ~drop(seq[at[i]])
        /\ \A i, j \in 1..Len(sub) : i < j => at[i] < at[j]

NamedDefault(role) ==
    \/ role \in {<<"offline_access">>, <<"uma_authorization">>}
    \/ (role # <<>> /\ Head(role) = "default-roles-")

\* C21: KeycloakRoleExtractor returns the realm roles followed by the roles
\* of the resource_access entry of exactly the given client id, in their
\* original order, without the roles that start with default-roles- or
\* equal offline_access or uma_authorization and with every other role; it
\* returns an error only when the claims do not parse.
C21_RoleExtractor ==
    call.fn = "KeycloakRoleExtractor" =>
        LET doc == call.args.rawClaims
            id == call.args.clientID
        IN  /\ call.result.err <=> doc = NotJSON
            /\ ~call.result.err =>
                  KeepsAllBut(doc.realm_access
                                  \o IF id \in DOMAIN doc.resource_access
                                     THEN doc.resource_access[id] ELSE <<>>,
                              call.result.roles, NamedDefault)

\* a realm role and the client's role were kept in that order, a default
\* role and the other client's role were not returned
C21_Witness ==
    /\ call.fn = "KeycloakRoleExtractor"
    /\ ~call.result.err
    /\ call.args.clientID = "app"
    /\ call.args.rawClaims.realm_access
           = <<<<"default-roles-", "acme">>, <<"default-roles">>>>
    /\ DOMAIN call.args.rawClaims.resource_access = Clients
    /\ call.args.rawClaims.resource_access["app"] = <<<<"offline_access", "2">>>>
    /\ call.args.rawClaims.resource_access["api"] = <<<<"admin">>>>
    /\ call.result.roles = <<<<"default-roles">>, <<"offline_access", "2">>>>

RequiredVariables ==
    {"SECRET_KEY", "APP_URL", "DATABASE_URL", "OIDC_ISSUER_URL",
     "OIDC_CLIENT_ID", "OIDC_CLIENT_SECRET"}

\* C22: config.Load returns a Config only if the six required variables
\* are set to non-empty values and SECRET_KEY is base64 for exactly 32
\* bytes, and panics otherwise; in the Config an unset or empty ENVIRONMENT
\* is "prod", ADDR is ":8080" and OIDC_LOGOUT_URL is empty, every other
\* field is the variable's value, and IsDev holds exactly when Environment
\* is "dev".
C22_ConfigLoad ==
    call.fn = "Load" =>
        LET env == call.args
            c == call.result
            complete ==
                /\ \A key \in RequiredVariables : env[key] # ""
                /\ env.SECRET_KEY = Key32
        IN  /\ ~c.panic <=> complete
            /\ ~c.panic =>
                  /\ c.Environment = (IF env.ENVIRONMENT = "" THEN "prod"
                                      ELSE env.ENVIRONMENT)
                  /\ c.Addr = (IF env.ADDR = "" THEN ":8080" ELSE env.ADDR)
                  /\ c.OIDCLogoutURL = env.OIDC_LOGOUT_URL
                  /\ c.AppURL = env.APP_URL
                  /\ c.DatabaseURL = env.DATABASE_URL
                  /\ c.OIDCIssuerURL = env.OIDC_ISSUER_URL
                  /\ c.OIDCClientID = env.OIDC_CLIENT_ID
                  /\ c.OIDCClientSecret = env.OIDC_CLIENT_SECRET
                  /\ c.SecretKey.len = 32 /\ c.SecretKey.of = env.SECRET_KEY
                  /\ IsDev(c) <=> env.ENVIRONMENT = "dev"

\* a Config was returned for an environment without ENVIRONMENT and ADDR
C22_Witness ==
    /\ call.fn = "Load"
    /\ ~call.result.panic
    /\ call.args.ENVIRONMENT = ""
    /\ call.args.ADDR = ""
    /\ call.result.Environment = "prod"
    /\ ~IsDev(call.result)

(***************************************************************************)
(* Properties of the login and logout handlers (Spec).                     *)
(***************************************************************************)
\* the ID token of the row a cookie names, "" when it names none
StoredIDToken(cookie) ==
    IF cookie \in DOMAIN sessions THEN sessions[cookie].id_token ELSE ""

\* C23: Logout always answers 307 and always expires the session_id
\* cookie, also without a cookie and with a cookie that names no stored
\* session; the target is the provider's logout URL, with id_token_hint the
\* session's ID token (empty when there was no session) and
\* post_logout_redirect_uri the AppURL, if and only if OIDCLogoutURL is not
\* empty, and "/" otherwise.
LogoutAnswers ==
    last'.op = "Logout" =>
        /\ last'.status = 307
        /\ last'.setCookies = {SetCookie("session_id", "", NoCookie, -1)}
        /\ last'.cookie \notin DOMAIN sessions'
        /\ oidcLogoutURL # "" =>
              last'.location = Location(oidcLogoutURL,
                                        StoredIDToken(last'.cookie), AppURL)
        /\ oidcLogoutURL = "" => last'.location = Location("/", "", "")

C24_OneLookup ==
    last.op = "Protected" =>
        /\ last.opt.ran
        /\ last.opt.lookups + last.req.lookups <= 1
        /\ last.req.lookups > 0 => last.opt.ctx = NoSession

(***************************************************************************)
(* C25: after SIGINT or SIGTERM is received the application context is     *)
(* cancelled, the sweeper goroutine eventually returns and runs no sweep   *)
(* from then on, and server.Shutdown is called with a 10 second deadline   *)
(* before main returns.                                                    *)
(***************************************************************************)
NoSweepOnceCancelled ==
    sweeper.done => /\ sweeper'.runs = sweeper.runs
                    /\ sessions' = sessions \/ last'.op = "Callback"

ShutdownBeforeReturn ==
    shutdown.at = "returned"
        => /\ shutdown.sig \in Signals
           /\ sweeper.done
           /\ shutdown.called
           /\ shutdown.deadline = 10

C25_GracefulShutdown ==
    /\ (shutdown.at = "signalled") ~> sweeper.done
    /\ sweeper.done ~> (sweeper.at = "returned")
    /\ [][NoSweepOnceCancelled]_vars
    /\ []ShutdownBeforeReturn

(***************************************************************************)
(* C26: Callback exchanges the code, upserts a user and creates a session  *)
(* only if the request carries an oauth_state cookie whose value equals    *)
(* the state query parameter; when the cookie is absent or the values      *)
(* differ it answers 400 and changes neither the user table nor the        *)
(* session table nor any cookie.                                           *)
(***************************************************************************)
SessionCookies(cookies) == {c \in cookies : c.name = "session_id"}

StateChecked(stateCookie, state) ==
    LET equal == \E v \in {""} \cup OAuthStates :
                    stateCookie = StateCookie(v) /\ v = state
    IN  /\ (users' # users \/ sessions' # sessions \/ last'.status # 400)
            => equal
        /\ ~equal => /\ last'.status = 400
                     /\ users' = users
                     /\ sessions' = sessions
                     /\ last'.setCookies = {}

CallbackChecksState ==
    last'.op = "Callback" => StateChecked(call'.args[1], call'.args[2])

C26_StateCookie == [][CallbackChecksState]_vars

\* a callback whose cookie did not match was turned away with 400 and no
\* cookie, while the rows of earlier logins stand
C26_Witness ==
    /\ last.op = "Callback"
    /\ call.args[1] = StateCookie("s2")
    /\ call.args[2] = "s1"
    /\ last.status = 400
    /\ last.setCookies = {}
    /\ DOMAIN sessions # {}
    /\ DOMAIN users # {}

(***************************************************************************)
(* C27: Callback sets the session_id cookie only after the session row for *)
(* that id has been stored, and the user row is upserted before the        *)
(* session row is inserted; if any step fails (token exchange, missing     *)
(* id_token, token verification, claims parsing, user upsert, session      *)
(* insert) the response is an error status, no session row has been        *)
(* created and no session_id cookie is set.                                *)
(***************************************************************************)
CallbackOrdered(fail, sub) ==
    /\ \A c \in SessionCookies(last'.setCookies) :
        /\ c.maxAge > 0
        /\ c.sid \in DOMAIN sessions' \ DOMAIN sessions
    /\ \A sid \in DOMAIN sessions' \ DOMAIN sessions :
        /\ sub \in DOMAIN users'
        /\ sessions'[sid].user_id = users'[sub].id
    /\ fail = "session" => sub \in DOMAIN users'
    /\ fail = "upsert" => users' = users
    /\ fail # "none" => /\ last'.status \in {401, 500}
                        /\ sessions' = sessions
                        /\ SessionCookies(last'.setCookies) = {}
    /\ fail = "none" => /\ last'.status = 307
                        /\ SessionCookies(last'.setCookies) # {}

CallbackInOrder ==
    (last'.op = "Callback" /\ StateMatches(call'.args[1], call'.args[2]))
        => CallbackOrdered(call'.args[3], call'.args[4])

C27_CallbackOrder == [][CallbackInOrder]_vars

\* the session insert failed for a user that had no row: the row is there,
\* no session is, and the answer is 500 with no session_id cookie
C27_Witness ==
    /\ last.op = "Callback"
    /\ call.args[3] = "session"
    /\ last.status = 500
    /\ DOMAIN users # {}
    /\ DOMAIN sessions = {}
    /\ nextSid = 0
    /\ SessionCookies(last.setCookies) = {}

(***************************************************************************)
(* C28: while an SSE connection is open, every message the producer hands  *)
(* to the channel is written to the response exactly once, framed as       *)
(* "data: <message>\n\n", in the order the producer sent them, and the     *)
(* response is flushed after each message before the next one is taken;    *)
(* the channel being unbuffered, the producer is never more than one       *)
(* message ahead of the writer.  The connection is open until a write to   *)
(* it fails.                                                               *)
(***************************************************************************)
WrittenInOrder ==
    /\ Len(sseHandler.response) <= Len(producer.sent)
    /\ \A i \in 1..Len(sseHandler.response) :
        sseHandler.response[i] = <<"data: ", producer.sent[i], "\n\n">>
    /\ \A i, j \in 1..Len(producer.sent) : i # j
        => producer.sent[i] # producer.sent[j]

OneAhead ==
    /\ Len(producer.sent) - Len(sseHandler.response) <= 1
    /\ Len(producer.sent) > Len(sseHandler.response)
        => \/ sseHandler.pc = "write" /\ sseHandler.data = producer.sent[Len(producer.sent)]
           \/ sseHandler.err = "write"
    /\ sseHandler.flushed <= Len(sseHandler.response)
    /\ sseHandler.flushed < Len(sseHandler.response)
        => sseHandler.pc = "flush"

FlushedBeforeNext ==
    Len(producer.sent') > Len(producer.sent)
        => /\ sseHandler.flushed = Len(sseHandler.response)
           /\ Len(sseHandler.response) = Len(producer.sent)

C28_EveryMessage ==
    /\ [](WrittenInOrder /\ OneAhead)
    /\ [][FlushedBeforeNext]_vars
    /\ \A n \in 1..MaxMessages :
        (Len(producer.sent) = n)
            ~> (sseHandler.flushed >= n \/ sseHandler.err = "write")

\* every message of the connection has been handed over, written and
\* flushed, and the connection is still open
C28_Witness ==
    /\ Len(producer.sent) = MaxMessages
    /\ sseHandler.flushed = MaxMessages
    /\ sseHandler.pc = "select"
    /\ ~ctxDone

(***************************************************************************)
(* C29: the views.SSE producer offers its first message at once and then   *)
(* one message for each tick it takes; once the request context is         *)
(* cancelled it returns and stops its ticker, wherever it waits (first     *)
(* send, tick, send after a tick), so it never stays blocked on a send.    *)
(***************************************************************************)
OnePerTick ==
    /\ producer.pc = "none" /\ producer'.pc # "none"
        => producer'.pc = "initial" /\ producer'.sent = <<>>
    /\ producer'.pc = "send" /\ producer.pc # "send"
        => producer.pc = "tick" /\ producer.tick /\ ~producer'.tick
    /\ Len(producer'.sent) > Len(producer.sent)
        => /\ producer.pc \in Sending
           /\ producer'.pc = "tick"
           /\ Len(producer'.sent) = Len(producer.sent) + 1
    /\ producer'.pc = "returned" /\ producer.pc # "returned"
        => ctxDone /\ producer'.stopped

C29_ProducerStops ==
    /\ [][OnePerTick]_vars
    /\ [](producer.stopped <=> producer.pc = "returned")
    /\ \A at \in Sending \cup {"tick"} :
        (ctxDone /\ producer.pc = at) ~> (producer.pc = "returned")

\* the context was cancelled while the producer offered its first message:
\* the handler returned without taking it, and the producer returned too
C29_Witness ==
    /\ producer.pc = "returned"
    /\ producer.stopped
    /\ producer.sent = <<>>
    /\ sseHandler.pc = "returned"
    /\ sseHandler.err = "done"

(***************************************************************************)
(* C30: for the handlers.SSE producer served through ConfigureSSE, after   *)
(* the client has disconnected and the handler has returned, every         *)
(* goroutine started for the connection terminates in the end: none stays  *)
(* blocked on a send to the message channel and none keeps a ticker        *)
(* running.                                                                *)
(***************************************************************************)
C30_NoGoroutineLeft ==
    (ctxDone /\ sseHandler.pc = "returned")
        ~> (producer.pc = "returned" /\ producer.stopped)

====
